---- MODULE Spec2Model ----
(***************************************************************************)
(* Model of the assignment/optimization engine of the planning app         *)
(* (src/services/aiSolver.ts): capacity resolver, presenter obligations,   *)
(* master schedule generator, genome/instance representation, fitness,     *)
(* the repair pass ("bulldozer") and the genetic search loop.              *)
(*                                                                         *)
(* Text is a sequence of one-character strings.  A JavaScript Map is a     *)
(* sequence in insertion order; an array is a sequence.                    *)
(*                                                                         *)
(* A forEach that updates an Individual is a recursive operator carrying   *)
(* the Individual.  Its exit test ends with a comparison of the carried    *)
(* value with NONE, which is never true: it only makes TLC evaluate the    *)
(* value at every iteration instead of nesting the iterations.             *)
(***************************************************************************)
EXTENDS Integers, Sequences, FiniteSets, TLC

\* ------------------------------------------------------------------------
\* Generic helpers for arrays
\* ------------------------------------------------------------------------

\* Array.prototype.filter
RECURSIVE SelectIdx(_, _, _)
SelectIdx(s, keep, i) ==
  IF i > Len(s) THEN <<>>
  ELSE (IF i \in keep THEN <<s[i]>> ELSE <<>>) \o SelectIdx(s, keep, i + 1)

Filter(s, P(_)) == SelectIdx(s, {i \in DOMAIN s : P(s[i])}, 1)

\* the same sequence, built the way every other array of the model is built
AsSeq(s) == SelectIdx(s, DOMAIN s, 1)

\* Array.prototype.sort with a comparator that is a strict weak order
\* ("Less(a, b)" iff the comparator returns a negative number); the sort is
\* stable, as ECMAScript 2019 requires.
StableSort(s, Less(_, _)) ==
  LET n == Len(s)
      pos(i) == Cardinality({j \in 1..n :
                   \/ Less(s[j], s[i])
                   \/ (~Less(s[i], s[j]) /\ j < i)}) + 1
  IN  [p \in 1..n |-> s[CHOOSE i \in 1..n : pos(i) = p]]

\* Array.prototype.find: index of the first element satisfying P, 0 if none
FindIdx(s, P(_)) ==
  IF \E i \in DOMAIN s : P(s[i])
  THEN CHOOSE i \in DOMAIN s : P(s[i]) /\ \A j \in 1..(i - 1) : ~P(s[j])
  ELSE 0

\* Array.prototype.includes
Includes(s, x) == \E i \in DOMAIN s : s[i] = x

Max(a, b) == IF a >= b THEN a ELSE b
Min(a, b) == IF a <= b THEN a ELSE b

\* Math.ceil(a / b) for a >= 0, b > 0
CeilDiv(a, b) == (a + b - 1) \div b

\* Number.MAX_SAFE_INTEGER, used by the code only as "rank of an unranked
\* session"; any value above every list index orders the same way.
MAX_SAFE_INTEGER == 1000000

\* ------------------------------------------------------------------------
\* Text: String.prototype.toLowerCase / includes / split, normalizeName
\* ------------------------------------------------------------------------

UpperCase == <<"A","B","C","D","E","F","G","H","I","J","K","L","M",
               "N","O","P","Q","R","S","T","U","V","W","X","Y","Z">>
LowerCase == <<"a","b","c","d","e","f","g","h","i","j","k","l","m",
               "n","o","p","q","r","s","t","u","v","w","x","y","z">>
Digits == {"0","1","2","3","4","5","6","7","8","9"}

toLowerChar(c) ==
  IF \E i \in DOMAIN UpperCase : UpperCase[i] = c
  THEN LowerCase[CHOOSE i \in DOMAIN UpperCase : UpperCase[i] = c]
  ELSE c

toLowerCase(s) == [i \in DOMAIN s |-> toLowerChar(s[i])]

\* the class [a-z0-9]
IsLowerAlnum(c) == (\E i \in DOMAIN LowerCase : LowerCase[i] = c) \/ c \in Digits

\* the class \w = [A-Za-z0-9_]
IsWordChar(c) == IsLowerAlnum(toLowerChar(c)) \/ c = "_"

\* s.includes(sub)
StrIncludes(s, sub) ==
  \E i \in 0..(Len(s) - Len(sub)) : SubSeq(s, i + 1, i + Len(sub)) = sub

\* name.toLowerCase().replace(/[^a-z0-9]/g, '')
normalizeName(name) == Filter(toLowerCase(name), IsLowerAlnum)

\* the separators [/&+,] of the split expression
SeparatorChars == {"/", "&", "+", ","}

\* a match of \ben\b (case-insensitive) starting at position i of s
IsEnWord(s, i) ==
  /\ i + 1 <= Len(s)
  /\ toLowerChar(s[i]) = "e"
  /\ toLowerChar(s[i + 1]) = "n"
  /\ (i = 1 \/ ~IsWordChar(s[i - 1]))
  /\ (i + 1 = Len(s) \/ ~IsWordChar(s[i + 2]))

\* speaker.split(/[/&+,]|\ben\b/i)
RECURSIVE SplitFrom(_, _, _)
SplitFrom(s, i, acc) ==
  IF i > Len(s) THEN <<acc>>
  ELSE IF s[i] \in SeparatorChars THEN <<acc>> \o SplitFrom(s, i + 1, <<>>)
  ELSE IF IsEnWord(s, i) THEN <<acc>> \o SplitFrom(s, i + 2, <<>>)
  ELSE SplitFrom(s, i + 1, Append(acc, s[i]))

splitSpeaker(speaker) == SplitFrom(speaker, 1, <<>>)

NonEmpty(p) == p # <<>>

matchSpeakerToAdvisor(speaker, advisor) ==
  IF speaker = <<>> THEN FALSE
  ELSE LET speakerParts ==
             Filter([i \in DOMAIN splitSpeaker(speaker) |->
                        normalizeName(splitSpeaker(speaker)[i])], NonEmpty)
           advisorName == normalizeName(advisor.name)
       IN  \E k \in DOMAIN speakerParts : StrIncludes(advisorName, speakerParts[k])

\* ------------------------------------------------------------------------
\* Capacity resolver
\* ------------------------------------------------------------------------

\* Array.prototype.find on records with an id; "NONE" stands for undefined
NONE == [none |-> TRUE]

ById(list, id) ==
  IF \E i \in DOMAIN list : list[i].id = id
  THEN list[CHOOSE i \in DOMAIN list :
              list[i].id = id /\ \A j \in 1..(i - 1) : list[j].id # id]
  ELSE NONE

\* the rules as they would be if the overflow seats of a small room were
\* granted to every session: the variant C14 is checked against
OverflowForEverySession(roomId, sessionId, room, slot, session) ==
  IF room = NONE \/ slot = NONE THEN 0
  ELSE IF roomId = "molenhoek" THEN (IF sessionId = 46 THEN 300 ELSE 0)
  ELSE IF slot.day = 2 /\ roomId = "kinderdijk" THEN 0
  ELSE IF room.capacity <= 27 THEN 32
  ELSE room.capacity

\* the rules of getStrictCapacity, given what its three lookups found
StrictCapacity(roomId, sessionId, room, slot, session) ==
  IF room = NONE \/ slot = NONE THEN 0
  ELSE IF roomId = "molenhoek" THEN (IF sessionId = 46 THEN 300 ELSE 0)
  ELSE IF slot.day = 2 /\ roomId = "kinderdijk" THEN 0
  ELSE IF session # NONE /\ session.type = "MANDATORY" /\ room.capacity <= 27
       THEN 32
  ELSE room.capacity

getStrictCapacity(roomId, sessionId, slotId, rooms, timeSlots, sessions) ==
  StrictCapacity(roomId, sessionId,
                 ById(rooms, roomId), ById(timeSlots, slotId), ById(sessions, sessionId))

\* ------------------------------------------------------------------------
\* Master schedule generator
\* ------------------------------------------------------------------------

RECURSIVE SumSeq(_)
SumSeq(s) == IF s = <<>> THEN 0 ELSE s[1] + SumSeq(Tail(s))

\* timeSlots.filter(ts => ts.type === SlotType.SESSION).map(ts => ts.id)
SessionSlotIds(timeSlots) ==
  LET ss == Filter(timeSlots, LAMBDA ts : ts.type = "SESSION")
  IN  [i \in DOMAIN ss |-> ss[i].id]

\* preferenceDemand.get(sessionId) ?? 0
preferenceDemand(advisors, sessionId) ==
  SumSeq([a \in DOMAIN advisors |->
    LET prefs == advisors[a].preferences
    IN  SumSeq([i \in DOMAIN prefs |->
          IF prefs[i] = sessionId THEN Max(1, Len(prefs) - (i - 1)) ELSE 0])])

NewInstance(counter, sessionId, roomId, slotId) ==
  [instanceId |-> counter, sessionId |-> sessionId, roomId |-> roomId,
   slotId |-> slotId, attendees |-> <<>>]

\* markUsed: only SESSION slots have a usage set
markUsed(used, sessionSlots, slotId, roomId) ==
  IF Includes(sessionSlots, slotId) THEN used \cup {<<slotId, roomId>>} ELSE used

\* 1. fixed placements, verbatim (a missing field is 0 or "")
RECURSIVE LoadFixed(_, _, _, _)
LoadFixed(g, fixedInstances, sessionSlots, i) ==
  IF i > Len(fixedInstances) THEN g
  ELSE LET fi == fixedInstances[i]
       IN  IF fi.sessionId # 0 /\ fi.roomId # "" /\ fi.slotId # 0
           THEN LoadFixed(
                  [g EXCEPT !.mo = Append(@, NewInstance(Len(g.mo) + 1,
                                             fi.sessionId, fi.roomId, fi.slotId)),
                            !.used = markUsed(g.used, sessionSlots, fi.slotId, fi.roomId)],
                  fixedInstances, sessionSlots, i + 1)
           ELSE LoadFixed(g, fixedInstances, sessionSlots, i + 1)

\* the slot and room the plenary is forced into
PLENARY_SLOT == 2
PLENARY_ROOM == "molenhoek"

\* 1.5 force the plenary into the plenary room at slot 2
RECURSIVE ForcePlenary(_, _, _, _)
ForcePlenary(g, plenarySessions, sessionSlots, i) ==
  IF i > Len(plenarySessions) THEN g
  ELSE LET sess == plenarySessions[i]
           existing == \E k \in DOMAIN g.mo :
                          g.mo[k].sessionId = sess.id /\ g.mo[k].slotId = PLENARY_SLOT
       IN  IF ~existing
           THEN ForcePlenary(
                  [g EXCEPT !.mo = Append(@, NewInstance(Len(g.mo) + 1,
                                             sess.id, PLENARY_ROOM, PLENARY_SLOT)),
                            !.used = markUsed(g.used, sessionSlots, PLENARY_SLOT, PLENARY_ROOM)],
                  plenarySessions, sessionSlots, i + 1)
           ELSE ForcePlenary(g, plenarySessions, sessionSlots, i + 1)

\* [...rooms].sort((a, b) => b.capacity - a.capacity).filter(r => r.id !== 'molenhoek')
largeRooms(rooms) ==
  Filter(StableSort(rooms, LAMBDA a, b : a.capacity > b.capacity),
         LAMBDA r : r.id # PLENARY_ROOM)

\* the mandatory pass for one session as it would be if it did not ask
\* whether the (slot, room) pair is used: the variant C18 is checked against
RECURSIVE PlaceMandatoryIgnoringUse(_, _, _, _, _, _, _, _, _)
PlaceMandatoryIgnoringUse(g, sess, needed, possibleSlots, lrooms, p, rooms, timeSlots, sessions) ==
  IF needed <= 0 \/ p > Len(possibleSlots) * Len(lrooms) THEN g
  ELSE LET slotId == possibleSlots[((p - 1) \div Len(lrooms)) + 1]
           room == lrooms[((p - 1) % Len(lrooms)) + 1]
       IN  IF getStrictCapacity(room.id, sess.id, slotId, rooms, timeSlots, sessions) > 0
           THEN PlaceMandatoryIgnoringUse(
                  [g EXCEPT !.mo = Append(@, NewInstance(Len(g.mo) + 1,
                                             sess.id, room.id, slotId)),
                            !.used = @ \cup {<<slotId, room.id>>}],
                  sess, needed - 1, possibleSlots, lrooms, p + 1, rooms, timeSlots, sessions)
           ELSE PlaceMandatoryIgnoringUse(g, sess, needed, possibleSlots, lrooms, p + 1,
                                          rooms, timeSlots, sessions)

\* the two nested for-loops of the mandatory pass over (slot, room), with
\* their "needed" counter; p counts the (slot, room) pairs visited
RECURSIVE PlaceMandatoryOne(_, _, _, _, _, _, _, _, _)
PlaceMandatoryOne(g, sess, needed, possibleSlots, lrooms, p, rooms, timeSlots, sessions) ==
  IF needed <= 0 \/ p > Len(possibleSlots) * Len(lrooms) THEN g
  ELSE LET slotId == possibleSlots[((p - 1) \div Len(lrooms)) + 1]
           room == lrooms[((p - 1) % Len(lrooms)) + 1]
       IN  IF /\ <<slotId, room.id>> \notin g.used
              /\ getStrictCapacity(room.id, sess.id, slotId, rooms, timeSlots, sessions) > 0
           THEN PlaceMandatoryOne(
                  [g EXCEPT !.mo = Append(@, NewInstance(Len(g.mo) + 1,
                                             sess.id, room.id, slotId)),
                            !.used = @ \cup {<<slotId, room.id>>}],
                  sess, needed - 1, possibleSlots, lrooms, p + 1, rooms, timeSlots, sessions)
           ELSE PlaceMandatoryOne(g, sess, needed, possibleSlots, lrooms, p + 1,
                                  rooms, timeSlots, sessions)

\* 2. place the mandatory sessions on day 1
RECURSIVE PlaceMandatory(_, _, _, _, _, _, _)
PlaceMandatory(g, mandatorySessions, sessionSlots, i, rooms, timeSlots, sessions) ==
  IF i > Len(mandatorySessions) THEN g
  ELSE LET sess == mandatorySessions[i]
           existing == Cardinality({k \in DOMAIN g.mo : g.mo[k].sessionId = sess.id})
           needed == sess.repeats - existing
           possibleSlots == Filter(sessionSlots,
                              LAMBDA sid : ById(timeSlots, sid) # NONE
                                           /\ ById(timeSlots, sid).day = 1)
           g2 == IF needed > 0
                 THEN PlaceMandatoryOne(g, sess, needed, possibleSlots,
                                        largeRooms(rooms), 1, rooms, timeSlots, sessions)
                 ELSE g
       IN  PlaceMandatory(g2, mandatorySessions, sessionSlots, i + 1,
                          rooms, timeSlots, sessions)

\* Math.ceil(demandTarget * 1.1) in IEEE double arithmetic: 1.1 is stored
\* slightly above 11/10, so the product of a positive multiple of ten is
\* rounded up past the integer as well
CeilTimes1_1(d) == IF d <= 0 THEN 0 ELSE d + (d \div 10) + 1

\* sData.label.startsWith(hh)
LabelStartsWith(label, hh) == Len(label) >= 2 /\ SubSeq(label, 1, 2) = hh

\* the filter of the elective candidates for one slot
ElectiveAllowed(sess, placedCount, slotId, timeSlots, advisors) ==
  LET demandTarget == Max(sess.repeats, CeilDiv(preferenceDemand(advisors, sess.id), 25))
      sData == ById(timeSlots, slotId)
      c == sess.constraints
  IN  /\ ~(placedCount >= CeilTimes1_1(demandTarget))
      /\ (c # NONE /\ sData # NONE) =>
           /\ ~(Len(c.allowedDays) > 0 /\ ~Includes(c.allowedDays, sData.day))
           /\ ~(c.timeOfDay = "morning"
                /\ ~(\/ LabelStartsWith(sData.label, <<"0", "8">>)
                     \/ LabelStartsWith(sData.label, <<"0", "9">>)
                     \/ LabelStartsWith(sData.label, <<"1", "0">>)
                     \/ LabelStartsWith(sData.label, <<"1", "1">>)))
           /\ ~(c.timeOfDay = "afternoon"
                /\ (\/ LabelStartsWith(sData.label, <<"0", "8">>)
                    \/ LabelStartsWith(sData.label, <<"0", "9">>)
                    \/ LabelStartsWith(sData.label, <<"1", "0">>)))

\* electivePlacements.get(id) ?? 0
PlacedCount(g, id) == IF id \in DOMAIN g.placed THEN g.placed[id] ELSE 0

\* the rooms of one slot, one elective per room
RECURSIVE PlaceElectivesInSlot(_, _, _, _, _, _, _)
PlaceElectivesInSlot(g, slotId, availableRooms, r, electiveSessions, timeSlots, advisors) ==
  IF r > Len(availableRooms) THEN g
  ELSE LET room == availableRooms[r]
           filtered == Filter(electiveSessions,
                         LAMBDA sess : ElectiveAllowed(sess, PlacedCount(g, sess.id),
                                                       slotId, timeSlots, advisors))
           \* scoreB - scoreA < 0 iff demandA / (placedA + 1) > demandB / (placedB + 1)
           candidates == StableSort(filtered,
                           LAMBDA a, b :
                             preferenceDemand(advisors, a.id) * Max(1, PlacedCount(g, b.id) + 1)
                             > preferenceDemand(advisors, b.id) * Max(1, PlacedCount(g, a.id) + 1))
       IN  IF candidates # <<>>
           THEN LET best == candidates[1]
                IN  PlaceElectivesInSlot(
                      [g EXCEPT !.mo = Append(@, NewInstance(Len(g.mo) + 1,
                                                 best.id, room.id, slotId)),
                                !.used = @ \cup {<<slotId, room.id>>},
                                !.placed = [x \in DOMAIN @ \cup {best.id} |->
                                              IF x = best.id THEN PlacedCount(g, best.id) + 1
                                              ELSE @[x]]],
                      slotId, availableRooms, r + 1, electiveSessions, timeSlots, advisors)
           ELSE PlaceElectivesInSlot(g, slotId, availableRooms, r + 1,
                                     electiveSessions, timeSlots, advisors)

\* 3. place the electives, slot by slot
RECURSIVE PlaceElectives(_, _, _, _, _, _, _)
PlaceElectives(g, sortedSlots, i, rooms, electiveSessions, timeSlots, advisors) ==
  IF i > Len(sortedSlots) THEN g
  ELSE LET slotId == sortedSlots[i]
           roomsInSlot == StableSort(Filter(rooms, LAMBDA r : r.id # PLENARY_ROOM),
                                     LAMBDA a, b : a.capacity > b.capacity)
           availableRooms == Filter(roomsInSlot, LAMBDA r : <<slotId, r.id>> \notin g.used)
       IN  PlaceElectives(
             PlaceElectivesInSlot(g, slotId, availableRooms, 1,
                                  electiveSessions, timeSlots, advisors),
             sortedSlots, i + 1, rooms, electiveSessions, timeSlots, advisors)

\* the menu with its usage sets after each of the four passes
GeneratorPasses(sessions, rooms, timeSlots, fixedInstances, advisors) ==
  LET sessionSlots == SessionSlotIds(timeSlots)
      g0 == [mo |-> <<>>, used |-> {}, placed |-> <<>>]
      g1 == LoadFixed(g0, fixedInstances, sessionSlots, 1)
      g2 == ForcePlenary(g1, Filter(sessions, LAMBDA s : s.type = "PLENARY"),
                         sessionSlots, 1)
      g3 == PlaceMandatory(g2, Filter(sessions, LAMBDA s : s.type = "MANDATORY"),
                           sessionSlots, 1, rooms, timeSlots, sessions)
      g4 == PlaceElectives(g3, StableSort(sessionSlots, LAMBDA a, b : a < b), 1, rooms,
                           Filter(sessions, LAMBDA s : s.type = "ELECTIVE"),
                           timeSlots, advisors)
  IN  <<g1, g2, g3, g4>>

generateSmartMasterOptions(sessions, rooms, timeSlots, fixedInstances, advisors) ==
  GeneratorPasses(sessions, rooms, timeSlots, fixedInstances, advisors)[4].mo

\* ------------------------------------------------------------------------
\* Presenter obligations
\* ------------------------------------------------------------------------

\* Map<slotId, PresenterObligation[]> as a sequence of [slotId, list] in
\* insertion order; the step for one (instance, advisor) pair
AddObligation(obligations, inst, adv) ==
  LET k == FindIdx(obligations, LAMBDA e : e.slotId = inst.slotId)
      list == IF k = 0 THEN <<>> ELSE obligations[k].list
      exists == \E i \in DOMAIN list :
                   list[i].advId = adv.id /\ list[i].sessionId = inst.sessionId
      list2 == IF ~exists
               THEN Append(list, [advId |-> adv.id, sessionId |-> inst.sessionId,
                                  slotId |-> inst.slotId, roomId |-> inst.roomId])
               ELSE list
  IN  IF k = 0 THEN Append(obligations, [slotId |-> inst.slotId, list |-> list2])
      ELSE [obligations EXCEPT ![k].list = list2]

\* masterOptions.forEach(inst => advisors.forEach(adv => ...)); p counts the
\* (instance, advisor) pairs visited
RECURSIVE BuildObligationsFrom(_, _, _, _, _)
BuildObligationsFrom(obligations, sessions, advisors, masterOptions, p) ==
  IF advisors = <<>> \/ p > Len(masterOptions) * Len(advisors) THEN obligations
  ELSE LET inst == masterOptions[((p - 1) \div Len(advisors)) + 1]
           adv == advisors[((p - 1) % Len(advisors)) + 1]
           session == ById(sessions, inst.sessionId)
       IN  IF session # NONE /\ session.speaker # <<>>
              /\ matchSpeakerToAdvisor(session.speaker, adv)
           THEN BuildObligationsFrom(AddObligation(obligations, inst, adv),
                                     sessions, advisors, masterOptions, p + 1)
           ELSE BuildObligationsFrom(obligations, sessions, advisors, masterOptions, p + 1)

buildPresenterObligations(sessions, advisors, masterOptions) ==
  BuildObligationsFrom(<<>>, sessions, advisors, masterOptions, 1)

\* presenterObligations.forEach((list, slotId) => list.forEach(ob => ...)):
\* the obligations in iteration order
RECURSIVE FlattenObligations(_)
FlattenObligations(obligations) ==
  IF obligations = <<>> THEN <<>>
  ELSE obligations[1].list \o FlattenObligations(Tail(obligations))

\* presenterObligations.get(slotId)?.some(o => o.advId === advId)
HasPresenterConflict(obligations, slotId, advId) ==
  \E k \in DOMAIN obligations :
     /\ obligations[k].slotId = slotId
     /\ \E i \in DOMAIN obligations[k].list : obligations[k].list[i].advId = advId

\* ------------------------------------------------------------------------
\* Genome: Map<advisorId, Map<slotId, Gene>>.  The inner map is a sequence
\* of genes in insertion order, keyed by the gene's slotId.
\* ------------------------------------------------------------------------

GeneOf(inst) == [sessionId |-> inst.sessionId, slotId |-> inst.slotId, roomId |-> inst.roomId]

MapHas(genes, slotId) == \E i \in DOMAIN genes : genes[i].slotId = slotId

MapGet(genes, slotId) ==
  IF MapHas(genes, slotId)
  THEN genes[CHOOSE i \in DOMAIN genes : genes[i].slotId = slotId]
  ELSE NONE

\* Map.prototype.set: an existing key keeps its position, a new one is appended
MapSet(genes, gene) ==
  IF MapHas(genes, gene.slotId)
  THEN AsSeq([i \in DOMAIN genes |->
                IF genes[i].slotId = gene.slotId THEN gene ELSE genes[i]])
  ELSE Append(genes, gene)

MapDelete(genes, slotId) == Filter(genes, LAMBDA g : g.slotId # slotId)

\* genome.get(advId): the genome is a sequence of [advId, genes] entries in
\* insertion order
genomeGet(genome, advId) ==
  IF \E i \in DOMAIN genome : genome[i].advId = advId
  THEN genome[CHOOSE i \in DOMAIN genome : genome[i].advId = advId].genes
  ELSE <<>>

\* genome.set(advId, genes)
genomeSet(genome, advId, genes) ==
  IF \E i \in DOMAIN genome : genome[i].advId = advId
  THEN AsSeq([i \in DOMAIN genome |->
                IF genome[i].advId = advId THEN [advId |-> advId, genes |-> genes]
                ELSE genome[i]])
  ELSE Append(genome, [advId |-> advId, genes |-> genes])

\* the genes of one advisor of an Individual
GenesOf(ind, advId) == genomeGet(ind.genome, advId)

\* the Individual with the advisor's map replaced
WithGenes(ind, advId, genes) ==
  [ind EXCEPT !.genome = genomeSet(ind.genome, advId, genes)]

SameTriple(a, b) ==
  a.sessionId = b.sessionId /\ a.slotId = b.slotId /\ a.roomId = b.roomId

\* instances.find(i => same session, slot and room as x)
FindInstance(instances, x) == FindIdx(instances, LAMBDA i : SameTriple(i, x))

\* the attendee list without advId
Without(attendees, advId) == Filter(attendees, LAMBDA a : a # advId)

AdvisorIds(advisors) == [i \in DOMAIN advisors |-> advisors[i].id]

\* the instance builder as it would be if it numbered the instances anew:
\* the variant C19 is checked against
BuildRenumbered(genome, masterOptions, advisors) ==
  AsSeq([k \in DOMAIN masterOptions |->
     [masterOptions[k] EXCEPT !.instanceId = Len(masterOptions) + k,
                              !.attendees =
        Filter(AdvisorIds(advisors),
               LAMBDA advId :
                 \E i \in DOMAIN genomeGet(genome, advId) :
                    FindInstance(masterOptions, genomeGet(genome, advId)[i]) = k)]])

buildInstancesFromGenome(genome, masterOptions, advisors) ==
  AsSeq([k \in DOMAIN masterOptions |->
     [masterOptions[k] EXCEPT !.attendees =
        Filter(AdvisorIds(advisors),
               LAMBDA advId :
                 \E i \in DOMAIN genomeGet(genome, advId) :
                    FindInstance(masterOptions, genomeGet(genome, advId)[i]) = k)]])

\* the body of enforcePresenterObligations for one obligation
EnforceOne(ind, ob, masterOptions) ==
  LET t == FindInstance(masterOptions, ob)
  IN  IF t = 0 THEN ind
      ELSE LET targetInstance == masterOptions[t]
               e == FindInstance(ind.instances, targetInstance)
           IN  [WithGenes(ind, ob.advId,
                          MapSet(GenesOf(ind, ob.advId), GeneOf(targetInstance)))
                EXCEPT
                  !.instances = IF e # 0 /\ ~Includes(ind.instances[e].attendees, ob.advId)
                                THEN [ind.instances EXCEPT
                                        ![e].attendees = Append(@, ob.advId)]
                                ELSE ind.instances]

RECURSIVE EnforceFrom(_, _, _, _)
EnforceFrom(ind, obs, masterOptions, i) ==
  IF i > Len(obs) \/ ind = NONE THEN ind
  ELSE EnforceFrom(EnforceOne(ind, obs[i], masterOptions), obs, masterOptions, i + 1)

enforcePresenterObligations(ind, presenterObligations, masterOptions) ==
  EnforceFrom(ind, FlattenObligations(presenterObligations), masterOptions, 1)

\* ------------------------------------------------------------------------
\* Repair pass ("bulldozer").  c is the run's context: advisors, sessions,
\* rooms, timeSlots, masterOptions, presenterObligations.
\* ------------------------------------------------------------------------

Cap(c, inst) ==
  getStrictCapacity(inst.roomId, inst.sessionId, inst.slotId,
                    c.rooms, c.timeSlots, c.sessions)

isBusy(ind, advId, slotId) == MapHas(GenesOf(ind, advId), slotId)

isAttendingSession(ind, advId, sessionId) ==
  \E i \in DOMAIN GenesOf(ind, advId) : GenesOf(ind, advId)[i].sessionId = sessionId

\* removeGene: the instance is looked up by the slot and the gene's room
removeGene(ind, advId, slotId) ==
  IF MapHas(GenesOf(ind, advId), slotId)
  THEN LET gene == MapGet(GenesOf(ind, advId), slotId)
           k == FindIdx(ind.instances,
                        LAMBDA i : i.slotId = slotId /\ i.roomId = gene.roomId)
       IN  [WithGenes(ind, advId, MapDelete(GenesOf(ind, advId), slotId)) EXCEPT
              !.instances = IF k # 0
                            THEN [ind.instances EXCEPT
                                    ![k].attendees = Without(ind.instances[k].attendees, advId)]
                            ELSE ind.instances]
  ELSE ind

\* addGene(advId, inst), inst being ind.instances[k]
addGene(ind, advId, k) ==
  LET ind1 == removeGene(ind, advId, ind.instances[k].slotId)
  IN  [WithGenes(ind1, advId, MapSet(GenesOf(ind1, advId), GeneOf(ind.instances[k])))
       EXCEPT !.instances[k].attendees = Append(@, advId)]

\* the indices of the instances satisfying P, in list order
IndicesWhere(instances, P(_)) ==
  SelectIdx([k \in DOMAIN instances |-> k], {k \in DOMAIN instances : P(instances[k])}, 1)

SessionType(c, sessionId) ==
  IF ById(c.sessions, sessionId) = NONE THEN "undefined"
  ELSE ById(c.sessions, sessionId).type

\* PHASE 1 for one pair as it would be if its second step overwrote whatever
\* gene the slot holds: the variant C27 is checked against
ForceMandatoryOverwriting(c, ind, adv, ms) ==
  IF isAttendingSession(ind, adv.id, ms.id) THEN ind
  ELSE
    LET free(k) == Cap(c, ind.instances[k]) - Len(ind.instances[k].attendees)
        instances == StableSort(IndicesWhere(ind.instances, LAMBDA i : i.sessionId = ms.id),
                                LAMBDA a, b : free(a) > free(b))
        s1 == FindIdx(instances,
                LAMBDA k : /\ ~isBusy(ind, adv.id, ind.instances[k].slotId)
                           /\ Len(ind.instances[k].attendees) < Cap(c, ind.instances[k]))
        s2 == FindIdx(instances,
                LAMBDA k : ~HasPresenterConflict(c.presenterObligations,
                                                 ind.instances[k].slotId, adv.id))
    IN  IF s1 # 0 THEN addGene(ind, adv.id, instances[s1])
        ELSE IF s2 # 0 THEN addGene(ind, adv.id, instances[s2])
        ELSE ind

\* PHASE 1 for one advisor and one mandatory or plenary session
ForceMandatoryOne(c, ind, adv, ms) ==
  IF isAttendingSession(ind, adv.id, ms.id) THEN ind
  ELSE
    LET free(k) == Cap(c, ind.instances[k]) - Len(ind.instances[k].attendees)
        instances == StableSort(IndicesWhere(ind.instances, LAMBDA i : i.sessionId = ms.id),
                                LAMBDA a, b : free(a) > free(b))
        conflict(k) == HasPresenterConflict(c.presenterObligations,
                                            ind.instances[k].slotId, adv.id)
        currentGene(k) == MapGet(GenesOf(ind, adv.id), ind.instances[k].slotId)
        \* 1. try a free slot
        s1 == FindIdx(instances,
                LAMBDA k : /\ ~isBusy(ind, adv.id, ind.instances[k].slotId)
                           /\ Len(ind.instances[k].attendees) < Cap(c, ind.instances[k]))
        \* 2. kick out an elective
        s2 == FindIdx(instances,
                LAMBDA k : /\ ~conflict(k)
                           /\ (\/ currentGene(k) = NONE
                               \/ SessionType(c, currentGene(k).sessionId) = "ELECTIVE"))
        \* 3. last resort: overwrite anything that is not another mandatory
        first == instances[1]
        s3ok == /\ ~conflict(first)
                /\ (\/ currentGene(first) = NONE
                    \/ SessionType(c, currentGene(first).sessionId)
                         \notin {"MANDATORY", "PLENARY"})
    IN  IF s1 # 0 THEN addGene(ind, adv.id, instances[s1])
        ELSE IF s2 # 0 THEN addGene(ind, adv.id, instances[s2])
        ELSE IF instances # <<>> /\ s3ok THEN addGene(ind, adv.id, first)
        ELSE ind

MandatoryOrPlenary(sessions) ==
  Filter(sessions, LAMBDA s : s.type = "MANDATORY" \/ s.type = "PLENARY")

\* advisors.forEach(adv => mandatorySessions.forEach(ms => ...)); p counts
\* the (advisor, session) pairs visited
RECURSIVE ForceMandatoryFrom(_, _, _, _)
ForceMandatoryFrom(c, ind, ms, p) ==
  IF ms = <<>> \/ p > Len(c.advisors) * Len(ms) \/ ind = NONE THEN ind
  ELSE ForceMandatoryFrom(c,
         ForceMandatoryOne(c, ind, c.advisors[((p - 1) \div Len(ms)) + 1],
                           ms[((p - 1) % Len(ms)) + 1]),
         ms, p + 1)

Phase1(c, ind) == ForceMandatoryFrom(c, ind, MandatoryOrPlenary(c.sessions), 1)

\* Array.from(slotsById.values()).filter(SESSION).map(id)
sessionSlotsOf(c) == SessionSlotIds(c.timeSlots)

HasSpace(c, inst) == Len(inst.attendees) < Cap(c, inst)

\* a gene written straight into the map, and the attendee pushed
SetGeneAndPush(ind, advId, k) ==
  [WithGenes(ind, advId, MapSet(GenesOf(ind, advId), GeneOf(ind.instances[k])))
   EXCEPT !.instances[k].attendees = Append(@, advId)]

\* PHASE 2 for one advisor and one session slot
FillHoleOne(c, ind, adv, slotId) ==
  IF HasPresenterConflict(c.presenterObligations, slotId, adv.id) THEN ind
  ELSE IF MapHas(GenesOf(ind, adv.id), slotId) THEN ind
  ELSE
    LET validOptions == IndicesWhere(ind.instances,
                          LAMBDA i : /\ i.slotId = slotId
                                     /\ ~isAttendingSession(ind, adv.id, i.sessionId))
        withSpace == Filter(validOptions, LAMBDA k : HasSpace(c, ind.instances[k]))
        pref == FindIdx(withSpace,
                        LAMBDA k : Includes(adv.preferences, ind.instances[k].sessionId))
        byLength == StableSort(validOptions,
                      LAMBDA a, b : Len(ind.instances[a].attendees)
                                    < Len(ind.instances[b].attendees))
    IN  IF withSpace # <<>>
        THEN SetGeneAndPush(ind, adv.id, IF pref # 0 THEN withSpace[pref] ELSE withSpace[1])
        ELSE IF validOptions # <<>> THEN SetGeneAndPush(ind, adv.id, byLength[1])
        ELSE ind

RECURSIVE FillHolesFrom(_, _, _, _)
FillHolesFrom(c, ind, slots, p) ==
  IF slots = <<>> \/ p > Len(c.advisors) * Len(slots) \/ ind = NONE THEN ind
  ELSE FillHolesFrom(c,
         FillHoleOne(c, ind, c.advisors[((p - 1) \div Len(slots)) + 1],
                     slots[((p - 1) % Len(slots)) + 1]),
         slots, p + 1)

Phase2(c, ind) == FillHolesFrom(c, ind, sessionSlotsOf(c), 1)

\* preferenceRank.get(sessionId) ?? MAX_SAFE_INTEGER; the map is filled by
\* preferences.forEach((p, idx) => map.set(p, idx)), so the last index wins
PreferenceRank(preferences, sessionId) ==
  IF Includes(preferences, sessionId)
  THEN (CHOOSE i \in DOMAIN preferences :
          /\ preferences[i] = sessionId
          /\ \A j \in DOMAIN preferences : preferences[j] = sessionId => j <= i) - 1
  ELSE MAX_SAFE_INTEGER

\* the first loop of PHASE 3 as it would be if it marked a session as seen
\* before testing it, so that every gene counts as a duplicate: the variant
\* C8 is checked against
RECURSIVE DedupeEveryGene(_, _, _, _)
DedupeEveryGene(st, advId, genes, i) ==
  IF i > Len(genes) THEN st
  ELSE DedupeEveryGene([ind |-> removeGene(st.ind, advId, genes[i].slotId),
                        seen |-> st.seen \cup {genes[i].sessionId}],
                       advId, genes, i + 1)

\* PHASE 3, first loop: genes.forEach over the advisor's map; st = [ind, seen]
RECURSIVE DedupeFrom(_, _, _, _)
DedupeFrom(st, advId, genes, i) ==
  IF i > Len(genes) \/ st = NONE THEN st
  ELSE IF genes[i].sessionId \in st.seen
       THEN DedupeFrom([st EXCEPT !.ind = removeGene(st.ind, advId, genes[i].slotId)],
                       advId, genes, i + 1)
       ELSE DedupeFrom([st EXCEPT !.seen = @ \cup {genes[i].sessionId}],
                       advId, genes, i + 1)

\* PHASE 3, second loop: refill the advisor's empty session slots
RECURSIVE RefillFrom(_, _, _, _, _)
RefillFrom(c, st, adv, slots, i) ==
  IF i > Len(slots) \/ st = NONE THEN st
  ELSE
    LET slotId == slots[i]
        ind == st.ind
        options == StableSort(
                     IndicesWhere(ind.instances,
                       LAMBDA x : /\ x.slotId = slotId
                                  /\ x.sessionId \notin st.seen
                                  /\ HasSpace(c, x)),
                     LAMBDA a, b : PreferenceRank(adv.preferences, ind.instances[a].sessionId)
                                   < PreferenceRank(adv.preferences, ind.instances[b].sessionId))
    IN  IF MapHas(GenesOf(ind, adv.id), slotId) THEN RefillFrom(c, st, adv, slots, i + 1)
        ELSE IF HasPresenterConflict(c.presenterObligations, slotId, adv.id)
             THEN RefillFrom(c, st, adv, slots, i + 1)
        ELSE IF options # <<>>
             THEN RefillFrom(c,
                    [ind |-> addGene(ind, adv.id, options[1]),
                     seen |-> st.seen \cup {ind.instances[options[1]].sessionId}],
                    adv, slots, i + 1)
        ELSE RefillFrom(c, st, adv, slots, i + 1)

DedupeAdvisor(c, ind, adv) ==
  RefillFrom(c, DedupeFrom([ind |-> ind, seen |-> {}], adv.id, GenesOf(ind, adv.id), 1),
             adv, sessionSlotsOf(c), 1).ind

RECURSIVE DedupeAllFrom(_, _, _)
DedupeAllFrom(c, ind, a) ==
  IF a > Len(c.advisors) \/ ind = NONE THEN ind
  ELSE DedupeAllFrom(c, DedupeAdvisor(c, ind, c.advisors[a]), a + 1)

Phase3(c, ind) == DedupeAllFrom(c, ind, 1)

\* preferenceRanks.get(advId)?.get(sessionId) ?? MAX_SAFE_INTEGER
RankOf(c, advId, sessionId) ==
  IF \E a \in DOMAIN c.advisors : c.advisors[a].id = advId
  THEN PreferenceRank(ById(c.advisors, advId).preferences, sessionId)
  ELSE MAX_SAFE_INTEGER

\* the eviction as it would be if it took the attendee listed first, whatever
\* the ranks: the variant C13 is checked against
EvictFirstListed(c, ind, k) == ind.instances[k].attendees[1]

\* the attendee the rebalance loop evicts next from instance k
EvictionCandidate(c, ind, k) ==
  StableSort(ind.instances[k].attendees,
             LAMBDA a, b : RankOf(c, a, ind.instances[k].sessionId)
                           > RankOf(c, b, ind.instances[k].sessionId))[1]

\* where the evicted attendee goes: index of the destination, 0 if none
Destination(c, ind, k, candidateAdv) ==
  LET inst == ind.instances[k]
      space(x) == Cap(c, ind.instances[x]) - Len(ind.instances[x].attendees)
      rank(x) == RankOf(c, candidateAdv, ind.instances[x].sessionId)
      altOptions ==
        StableSort(
          IndicesWhere(ind.instances,
            LAMBDA other : /\ other.slotId = inst.slotId
                           /\ other.sessionId # inst.sessionId
                           /\ HasSpace(c, other)
                           /\ RankOf(c, candidateAdv, other.sessionId) # MAX_SAFE_INTEGER),
          LAMBDA a, b : IF rank(a) # rank(b) THEN rank(a) < rank(b)
                        ELSE space(a) > space(b))
      fallback == FindIdx(ind.instances,
                    LAMBDA other : /\ other.slotId = inst.slotId
                                   /\ other.sessionId # inst.sessionId
                                   /\ HasSpace(c, other))
  IN  IF altOptions # <<>> THEN altOptions[1] ELSE fallback

\* one iteration of  while (inst.attendees.length > cap)  that does not break
RebalanceStep(c, ind, k) ==
  LET candidateAdv == EvictionCandidate(c, ind, k)
      ind1 == removeGene(ind, candidateAdv, ind.instances[k].slotId)
      destination == Destination(c, ind1, k, candidateAdv)
  IN  IF destination # 0 THEN addGene(ind1, candidateAdv, destination) ELSE ind1

\* the while loop for instance k.  The loop is deterministic, so it runs for
\* ever exactly when an iteration reproduces a state it started from before;
\* r = [ind, hung], visited = the states at the start of the iterations so far
RECURSIVE RebalanceLoop(_, _, _, _)
RebalanceLoop(c, r, k, visited) ==
  LET ind == r.ind
      inst == ind.instances[k]
  IN  IF ~(Len(inst.attendees) > Cap(c, inst)) THEN r
      ELSE IF HasPresenterConflict(c.presenterObligations, inst.slotId,
                                   EvictionCandidate(c, ind, k)) THEN r
      ELSE IF RebalanceStep(c, ind, k) \in visited \cup {ind}
           THEN [r EXCEPT !.hung = TRUE]
      ELSE RebalanceLoop(c, [r EXCEPT !.ind = RebalanceStep(c, ind, k)], k,
                         visited \cup {ind})

\* overfullInstances.forEach(inst => ...)
RECURSIVE RebalanceFrom(_, _, _, _)
RebalanceFrom(c, r, overfull, i) ==
  IF i > Len(overfull) \/ r.hung THEN r
  ELSE RebalanceFrom(c, RebalanceLoop(c, r, overfull[i], {}), overfull, i + 1)

\* PHASE 4 as it would be if it left every overfull instance alone: the
\* variant C12 is checked against
Phase4WithoutRebalance(c, ind) == [ind |-> ind, hung |-> FALSE]

\* PHASE 4
Phase4(c, ind) ==
  RebalanceFrom(c, [ind |-> ind, hung |-> FALSE],
                IndicesWhere(ind.instances,
                             LAMBDA inst : Len(inst.attendees) > Cap(c, inst)),
                1)

\* the repair pass: [ind |-> the Individual it leaves, hung |-> TRUE when the
\* rebalance loop never ends, ind then being the state the loop cycles through]
refineScheduleWithBulldozer(c, ind) ==
  Phase4(c, Phase3(c, Phase2(c, Phase1(c,
    enforcePresenterObligations(ind, c.presenterObligations, c.masterOptions)))))

\* ------------------------------------------------------------------------
\* Fitness
\* ------------------------------------------------------------------------

WEIGHT_CAPACITY_VIOLATION == -50000
WEIGHT_MANDATORY_MISSING == -100000
WEIGHT_UNFILLED_SLOT == -5000
WEIGHT_PREFERENCE_MET == 100
WEIGHT_DUPLICATE_SESSION == -100000

\* the number of genes whose session an earlier gene of the map already has
DuplicateCount(genes) ==
  Cardinality({i \in DOMAIN genes :
                 \E j \in 1..(i - 1) : genes[j].sessionId = genes[i].sessionId})

\* sessions.filter(s => s.speaker && s.speaker.toLowerCase()
\*                        .includes(adv.name.toLowerCase())).length
presentingCount(sessions, adv) ==
  Cardinality({i \in DOMAIN sessions :
                 /\ sessions[i].speaker # <<>>
                 /\ StrIncludes(toLowerCase(sessions[i].speaker), toLowerCase(adv.name))})

\* (met / needed) * 100, kept as its integer part: the code only compares it
\* with 100, and the integer part is 100 exactly when met = needed
Percent(met, needed) == IF needed > 0 THEN (met * 100) \div needed ELSE 100

\* calculateFitness: the score and the stats snapshot it stores on ind
calculateFitness(c, ind) ==
  LET mandatory == MandatoryOrPlenary(c.sessions)
      sessionSlotsCount == Len(sessionSlotsOf(c))
      n == Len(c.advisors)
      genesOf(a) == GenesOf(ind, c.advisors[a].id)
      attends(a, sid) == \E i \in DOMAIN genesOf(a) : genesOf(a)[i].sessionId = sid
      duplicates == SumSeq([a \in 1..n |-> DuplicateCount(genesOf(a))])
      metOf(a) == Cardinality({m \in DOMAIN mandatory : attends(a, mandatory[m].id)})
      totalMandatoryNeeded == n * Len(mandatory)
      totalMandatoryMet == SumSeq([a \in 1..n |-> metOf(a)])
      possibleElectiveSlots == Max(0, sessionSlotsCount - Len(mandatory))
      maxMatchable(a) == Min(Len(c.advisors[a].preferences), possibleElectiveSlots)
      personalMet(a) ==
        IF maxMatchable(a) > 0
        THEN Cardinality({i \in DOMAIN c.advisors[a].preferences :
                            attends(a, c.advisors[a].preferences[i])})
        ELSE 0
      metPreferences == SumSeq([a \in 1..n |-> personalMet(a)])
      totalPreferences == SumSeq([a \in 1..n |-> Max(0, maxMatchable(a))])
      overflow(k) == Max(0, Len(ind.instances[k].attendees) - Cap(c, ind.instances[k]))
      capacityViolations == SumSeq([k \in DOMAIN ind.instances |-> overflow(k)])
      target(a) == Max(0, sessionSlotsCount - presentingCount(c.sessions, c.advisors[a]))
      actualUnfilled == SumSeq([a \in 1..n |-> Max(0, target(a) - Len(genesOf(a)))])
      score == duplicates * WEIGHT_DUPLICATE_SESSION
               + (totalMandatoryNeeded - totalMandatoryMet) * WEIGHT_MANDATORY_MISSING
               + metPreferences * WEIGHT_PREFERENCE_MET
               + capacityViolations * WEIGHT_CAPACITY_VIOLATION
               + actualUnfilled * WEIGHT_UNFILLED_SLOT
  IN  [ind EXCEPT
         !.fitness = score,
         !.stats = [mandatoryMetPercent |-> Percent(totalMandatoryMet, totalMandatoryNeeded),
                    capacityViolations |-> capacityViolations,
                    unfilledSlots |-> actualUnfilled,
                    preferenceMetPercent |-> Percent(metPreferences, totalPreferences),
                    minSizeViolations |-> 0,
                    duplicatesFound |-> duplicates]]

\* stats: {} of a freshly built Individual
NoStats == [none |-> TRUE]

\* ------------------------------------------------------------------------
\* Random individual (the code draws no random number here)
\* ------------------------------------------------------------------------

\* occupancy.get(instanceKey(inst)) ?? 0; occ is a function on instance keys
TripleKey(x) == <<x.sessionId, x.slotId, x.roomId>>
Occupancy(occ, x) == IF TripleKey(x) \in DOMAIN occ THEN occ[TripleKey(x)] ELSE 0
OccupancyPlusOne(occ, x) ==
  [key \in DOMAIN occ \cup {TripleKey(x)} |->
     IF key = TripleKey(x) THEN Occupancy(occ, x) + 1 ELSE occ[key]]

canFit(c, occ, inst) == Occupancy(occ, inst) < Cap(c, inst)

\* reserve(advId, inst, advGenes) on st = [genes, picked, occ]; ok tells
\* whether it returned true
reserve(c, st, inst) ==
  IF ~canFit(c, st.occ, inst) THEN [st EXCEPT !.ok = FALSE]
  ELSE [st EXCEPT !.genes = MapSet(st.genes, GeneOf(inst)),
                  !.occ = OccupancyPlusOne(st.occ, inst),
                  !.ok = TRUE]

\* advObligations.forEach(ob => ...)
RECURSIVE SeedObligations(_, _, _)
SeedObligations(st, obs, i) ==
  IF i > Len(obs) THEN st
  ELSE SeedObligations(
         [st EXCEPT !.genes = MapSet(st.genes, GeneOf(obs[i])),
                    !.picked = @ \cup {obs[i].sessionId},
                    !.occ = OccupancyPlusOne(st.occ, obs[i])],
         obs, i + 1)

\* mandatorySessions.forEach(ms => ...)
RECURSIVE ReserveMandatory(_, _, _, _)
ReserveMandatory(c, st, ms, i) ==
  IF i > Len(ms) THEN st
  ELSE IF ms[i].id \in st.picked THEN ReserveMandatory(c, st, ms, i + 1)
  ELSE
    LET instances == StableSort(
                       Filter(c.masterOptions,
                              LAMBDA x : x.sessionId = ms[i].id /\ ~MapHas(st.genes, x.slotId)),
                       LAMBDA a, b : a.slotId < b.slotId)
        fit == FindIdx(instances, LAMBDA x : canFit(c, st.occ, x))
        inst == IF fit # 0 THEN instances[fit] ELSE instances[1]
        st2 == reserve(c, st, inst)
    IN  IF instances = <<>> THEN ReserveMandatory(c, st, ms, i + 1)
        ELSE ReserveMandatory(c,
               IF st2.ok THEN [st2 EXCEPT !.picked = @ \cup {inst.sessionId}] ELSE st2,
               ms, i + 1)

\* sessionSlots.forEach(slotId => ...)
RECURSIVE ReserveSlots(_, _, _, _, _)
ReserveSlots(c, st, adv, slots, i) ==
  IF i > Len(slots) THEN st
  ELSE IF MapHas(st.genes, slots[i]) THEN ReserveSlots(c, st, adv, slots, i + 1)
  ELSE
    LET options == StableSort(
                     Filter(c.masterOptions,
                            LAMBDA x : x.slotId = slots[i] /\ x.sessionId \notin st.picked),
                     LAMBDA a, b : PreferenceRank(adv.preferences, a.sessionId)
                                   < PreferenceRank(adv.preferences, b.sessionId))
        topPreference == options[1]
        isSpeaker == \E s \in DOMAIN c.sessions :
                        /\ c.sessions[s].speaker # <<>>
                        /\ StrIncludes(toLowerCase(c.sessions[s].speaker),
                                       toLowerCase(adv.name))
                        /\ c.sessions[s].id = topPreference.sessionId
        st1 == reserve(c, st, topPreference)
        alt == FindIdx(options, LAMBDA x : canFit(c, st.occ, x))
        st2 == reserve(c, st, options[alt])
        st3 == IF st1.ok THEN [st1 EXCEPT !.picked = @ \cup {topPreference.sessionId}]
               ELSE IF alt # 0 /\ st2.ok
                    THEN [st2 EXCEPT !.picked = @ \cup {options[alt].sessionId}]
               ELSE st
    IN  IF options = <<>> \/ isSpeaker THEN ReserveSlots(c, st, adv, slots, i + 1)
        ELSE ReserveSlots(c, st3, adv, slots, i + 1)

\* advisors.forEach(adv => ...); r = [genome, occ]
RECURSIVE RandomGenomeFrom(_, _, _)
RandomGenomeFrom(c, r, a) ==
  IF a > Len(c.advisors) \/ r = NONE THEN r
  ELSE
    LET adv == c.advisors[a]
        advObligations == Filter(FlattenObligations(c.presenterObligations),
                                 LAMBDA ob : ob.advId = adv.id)
        st0 == [genes |-> <<>>, picked |-> {}, occ |-> r.occ, ok |-> TRUE]
        st1 == SeedObligations(st0, advObligations, 1)
        st2 == ReserveMandatory(c, st1, MandatoryOrPlenary(c.sessions), 1)
        st3 == ReserveSlots(c, st2, adv, sessionSlotsOf(c), 1)
    IN  RandomGenomeFrom(c,
          [genome |-> genomeSet(r.genome, adv.id, st3.genes), occ |-> st3.occ],
          a + 1)

createRandomIndividual(c) ==
  LET genome == RandomGenomeFrom(c, [genome |-> <<>>, occ |-> <<>>], 1).genome
  IN  [genome |-> genome, fitness |-> 0, stats |-> NoStats,
       instances |-> buildInstancesFromGenome(genome, c.masterOptions, c.advisors)]

\* ------------------------------------------------------------------------
\* Crossover
\* ------------------------------------------------------------------------

\* the slots of g1, then the slots of g2 that g1 lacks (Set insertion order)
allSlots(g1, g2) ==
  [i \in DOMAIN g1 |-> g1[i].slotId]
  \o LET rest == Filter(g2, LAMBDA g : ~MapHas(g1, g.slotId))
     IN  [i \in DOMAIN rest |-> rest[i].slotId]

\* the (advisor, slot) pairs at which Math.random() decides between two
\* different genes (where the two genes are equal the draw changes nothing)
ContestedPairs(c, p1, p2) ==
  UNION {{<<advId, GenesOf(p1, advId)[i].slotId>> :
            i \in {j \in DOMAIN GenesOf(p1, advId) :
                     /\ MapHas(GenesOf(p2, advId), GenesOf(p1, advId)[j].slotId)
                     /\ MapGet(GenesOf(p2, advId), GenesOf(p1, advId)[j].slotId)
                          # GenesOf(p1, advId)[j]}} :
         advId \in {c.advisors[a].id : a \in DOMAIN c.advisors}}

\* crossover as it would be if the child kept the first parent's attendee
\* lists instead of rebuilding them: the variant C21 is checked against
CrossoverKeepingLists(c, p1, p2, heads) ==
  LET childMap(advId) ==
        LET g1 == GenesOf(p1, advId)
            g2 == GenesOf(p2, advId)
            slots == allSlots(g1, g2)
        IN  AsSeq([i \in DOMAIN slots |->
               IF MapHas(g1, slots[i]) /\ MapHas(g2, slots[i])
               THEN (IF <<advId, slots[i]>> \in heads THEN MapGet(g1, slots[i])
                     ELSE MapGet(g2, slots[i]))
               ELSE IF MapHas(g1, slots[i]) THEN MapGet(g1, slots[i])
               ELSE MapGet(g2, slots[i])])
      childGenome == AsSeq([a \in DOMAIN c.advisors |->
                        [advId |-> c.advisors[a].id, genes |-> childMap(c.advisors[a].id)]])
  IN  [genome |-> childGenome, instances |-> p1.instances,
       fitness |-> 0, stats |-> NoStats]

\* heads: the contested pairs at which r < 0.5, so that gene1 is copied
crossoverIndividuals(c, p1, p2, heads) ==
  LET childMap(advId) ==
        LET g1 == GenesOf(p1, advId)
            g2 == GenesOf(p2, advId)
            slots == allSlots(g1, g2)
        IN  AsSeq([i \in DOMAIN slots |->
               IF MapHas(g1, slots[i]) /\ MapHas(g2, slots[i])
               THEN (IF <<advId, slots[i]>> \in heads THEN MapGet(g1, slots[i])
                     ELSE MapGet(g2, slots[i]))
               ELSE IF MapHas(g1, slots[i]) THEN MapGet(g1, slots[i])
               ELSE MapGet(g2, slots[i])])
      childGenome == AsSeq([a \in DOMAIN c.advisors |->
                        [advId |-> c.advisors[a].id, genes |-> childMap(c.advisors[a].id)]])
  IN  [genome |-> childGenome,
       instances |-> buildInstancesFromGenome(childGenome, c.masterOptions, c.advisors),
       fitness |-> 0, stats |-> NoStats]

\* ------------------------------------------------------------------------
\* Mutation.  Every Math.floor(Math.random() * n) is an argument.
\* ------------------------------------------------------------------------

OverfullIndices(c, ind) ==
  IndicesWhere(ind.instances, LAMBDA inst : Len(inst.attendees) > Cap(c, inst))

\* the choice as it would be if an unfilled slot were no defect class: the
\* variant C22 is checked against
ChoiceWithoutFillSlot(c, ind) ==
  IF ind.stats.mandatoryMetPercent < 100 THEN "MANDATORY_FIX"
  ELSE IF OverfullIndices(c, ind) # <<>> THEN "CAPACITY_FIX"
  ELSE "RANDOM_SWAP"

mutationChoice(c, ind) ==
  IF ind.stats.mandatoryMetPercent < 100 THEN "MANDATORY_FIX"
  ELSE IF OverfullIndices(c, ind) # <<>> THEN "CAPACITY_FIX"
  ELSE IF ind.stats.unfilledSlots > 0 THEN "FILL_SLOT"
  ELSE "RANDOM_SWAP"

\* the mandatory and plenary sessions the advisor's genes lack
MissingMandatory(c, ind, advId) ==
  Filter(MandatoryOrPlenary(c.sessions),
         LAMBDA m : ~isAttendingSession(ind, advId, m.id))

\* case 'MANDATORY_FIX': advisor number a, missing session number t, instance
\* number n of that session
MandatoryFix(c, ind, a, t, n) ==
  LET rndAdv == c.advisors[a]
      missing == MissingMandatory(c, ind, rndAdv.id)
      instances == IndicesWhere(ind.instances, LAMBDA i : i.sessionId = missing[t].id)
  IN  IF missing = <<>> THEN ind
      ELSE IF instances = <<>> THEN ind
      ELSE SetGeneAndPush(ind, rndAdv.id, instances[n])

\* case 'CAPACITY_FIX', up to the choice of the new seat: overfull instance
\* number o, attendee number x of it
CapacityFixRemove(c, ind, o, x) ==
  LET k == OverfullIndices(c, ind)[o]
      advId == ind.instances[k].attendees[x]
  IN  [WithGenes(ind, advId, MapDelete(GenesOf(ind, advId), ind.instances[k].slotId))
       EXCEPT !.instances[k].attendees = Without(ind.instances[k].attendees, advId)]

\* the instances of slotId with a free seat
FeasibleIn(c, ind, slotId) ==
  IndicesWhere(ind.instances, LAMBDA o : o.slotId = slotId /\ HasSpace(c, o))

\* case 'CAPACITY_FIX': the new seat is feasible instance number f
CapacityFix(c, ind, o, x, f) ==
  LET k == OverfullIndices(c, ind)[o]
      advId == ind.instances[k].attendees[x]
      ind1 == CapacityFixRemove(c, ind, o, x)
      feasible == FeasibleIn(c, ind1, ind.instances[k].slotId)
  IN  IF feasible = <<>> THEN ind1 ELSE SetGeneAndPush(ind1, advId, feasible[f])

\* sessionSlots.filter(sid => !genes.has(sid))
emptySlots(c, ind, advId) ==
  Filter(sessionSlotsOf(c), LAMBDA sid : ~MapHas(GenesOf(ind, advId), sid))

\* case 'FILL_SLOT': advisor number a, empty slot number e, feasible instance
\* number f (read only when no feasible instance is a preference)
FillSlot(c, ind, a, e, f) ==
  LET adv == c.advisors[a]
      empty == emptySlots(c, ind, adv.id)
      feasible == FeasibleIn(c, ind, empty[e])
      pref == FindIdx(feasible,
                      LAMBDA k : Includes(adv.preferences, ind.instances[k].sessionId))
  IN  IF empty = <<>> THEN ind
      ELSE IF feasible = <<>> THEN ind
      ELSE SetGeneAndPush(ind, adv.id, IF pref # 0 THEN feasible[pref] ELSE feasible[f])

\* case 'RANDOM_SWAP': session slot number s, advisors number a1 and a2; only
\* the genome is written
RandomSwap(c, ind, s, a1, a2) ==
  LET slotId == sessionSlotsOf(c)[s]
      id1 == c.advisors[a1].id
      id2 == c.advisors[a2].id
      g1 == GenesOf(ind, id1)
      g2 == GenesOf(ind, id2)
      gene1 == MapGet(g1, slotId)
      gene2 == MapGet(g2, slotId)
  IN  IF id1 = id2 THEN ind
      ELSE IF gene1 = NONE /\ gene2 = NONE THEN ind
      ELSE WithGenes(
             WithGenes(ind, id1,
                       IF gene2 # NONE THEN MapSet(g1, gene2) ELSE MapDelete(g1, slotId)),
             id2, IF gene1 # NONE THEN MapSet(g2, gene1) ELSE MapDelete(g2, slotId))

\* 1..n, or {1} when the list is empty and the index is never read
IndexChoices(n) == IF n = 0 THEN {1} ELSE 1..n

\* what the switch of mutateIndividual can leave, over all random draws
SwitchOutcomes(c, ind) ==
  LET mode == mutationChoice(c, ind)
      A == DOMAIN c.advisors
  IN  IF mode = "MANDATORY_FIX"
      THEN UNION {UNION {{MandatoryFix(c, ind, a, t, n) :
                    n \in IndexChoices(Cardinality({k \in DOMAIN ind.instances :
                            MissingMandatory(c, ind, c.advisors[a].id) # <<>>
                            /\ ind.instances[k].sessionId
                                 = MissingMandatory(c, ind, c.advisors[a].id)[t].id}))} :
                    t \in IndexChoices(Len(MissingMandatory(c, ind, c.advisors[a].id)))} :
                    a \in A}
      ELSE IF mode = "CAPACITY_FIX"
      THEN UNION {UNION {{CapacityFix(c, ind, o, x, f) :
                    f \in IndexChoices(Len(FeasibleIn(c, CapacityFixRemove(c, ind, o, x),
                            ind.instances[OverfullIndices(c, ind)[o]].slotId)))} :
                    x \in DOMAIN ind.instances[OverfullIndices(c, ind)[o]].attendees} :
                    o \in DOMAIN OverfullIndices(c, ind)}
      ELSE IF mode = "FILL_SLOT"
      THEN UNION {UNION {{FillSlot(c, ind, a, e, f) :
                    f \in IndexChoices(IF emptySlots(c, ind, c.advisors[a].id) = <<>> THEN 0
                            ELSE Len(FeasibleIn(c, ind,
                                       emptySlots(c, ind, c.advisors[a].id)[e])))} :
                    e \in IndexChoices(Len(emptySlots(c, ind, c.advisors[a].id)))} :
                    a \in A}
      ELSE {RandomSwap(c, ind, s, a1, a2) :
              s \in DOMAIN sessionSlotsOf(c), a1 \in A, a2 \in A}

\* mutateIndividual: fired is  !(Math.random() > mutationRate)
MutationOutcomes(c, ind, fired) ==
  {enforcePresenterObligations(x, c.presenterObligations, c.masterOptions) :
     x \in IF fired THEN SwitchOutcomes(c, calculateFitness(c, ind)) ELSE {ind}}

\* ------------------------------------------------------------------------
\* Objects.  The Individuals above are values; this is which mutable objects
\* (the Individual with its fitness and stats, the slot map of an attendee,
\* a gene, the attendee list of an instance) an Individual holds.  An object
\* is named by the Individual it was allocated for.
\* ------------------------------------------------------------------------

Obj(owner, part, key) == [owner |-> owner, part |-> part, key |-> key]

\* the objects of an Individual allocated for owner, each with its content
ObjectsOf(owner, ind) ==
  {<<Obj(owner, "individual", <<0, 0>>), [fitness |-> ind.fitness, stats |-> ind.stats]>>}
  \cup {<<Obj(owner, "slots", <<ind.genome[a].advId, 0>>),
          [i \in DOMAIN ind.genome[a].genes |-> ind.genome[a].genes[i].slotId]>> :
          a \in DOMAIN ind.genome}
  \cup UNION {{<<Obj(owner, "gene", <<ind.genome[a].advId, ind.genome[a].genes[i].slotId>>),
                 ind.genome[a].genes[i]>> : i \in DOMAIN ind.genome[a].genes} :
                a \in DOMAIN ind.genome}
  \cup {<<Obj(owner, "attendees", <<k, 0>>), ind.instances[k].attendees>> :
          k \in DOMAIN ind.instances}

\* the attendee lists of the master menu
MenuObjects(c) ==
  {<<Obj("menu", "attendees", <<k, 0>>), c.masterOptions[k].attendees>> :
     k \in DOMAIN c.masterOptions}

\* the parent whose gene crossoverIndividuals chooses for the attendee and slot
GeneSource(p1, p2, heads, advId, slotId) ==
  IF MapHas(GenesOf(p1, advId), slotId) /\ MapHas(GenesOf(p2, advId), slotId)
  THEN (IF <<advId, slotId>> \in heads THEN "p1" ELSE "p2")
  ELSE IF MapHas(GenesOf(p1, advId), slotId) THEN "p1" ELSE "p2"

\* the stored gene as it would be if the chosen gene itself were stored: the
\* variant C20 is checked against
ShareGene(from, advId, slotId) == Obj(from, "gene", <<advId, slotId>>)

\* childMap.set(slotId, { ...chosen }): the object stored is a new one
CopyGene(from, advId, slotId) == Obj("child", "gene", <<advId, slotId>>)

\* The objects the child holds when the offspring loop pushes it, x being
\* what crossoverIndividuals returned and child what mutateIndividual and
\* calculateFitness made of it: the Individual, the slot maps and the
\* attendee lists are the ones made for x; a gene is the one crossover stored
\* unless mutation or presenter enforcement stored another, which is always
\* a new object literal.
ChildObjects(p1, p2, heads, x, child) ==
  {<<Obj("child", "individual", <<0, 0>>),
     [fitness |-> child.fitness, stats |-> child.stats]>>}
  \cup {<<Obj("child", "slots", <<child.genome[a].advId, 0>>),
          [i \in DOMAIN child.genome[a].genes |-> child.genome[a].genes[i].slotId]>> :
          a \in DOMAIN child.genome}
  \cup UNION {{<<IF MapGet(GenesOf(x, child.genome[a].advId),
                          child.genome[a].genes[i].slotId) = child.genome[a].genes[i]
                 THEN CopyGene(GeneSource(p1, p2, heads, child.genome[a].advId,
                                          child.genome[a].genes[i].slotId),
                               child.genome[a].advId, child.genome[a].genes[i].slotId)
                 ELSE Obj("child", "gene",
                          <<child.genome[a].advId, child.genome[a].genes[i].slotId>>),
                 child.genome[a].genes[i]>> : i \in DOMAIN child.genome[a].genes} :
                a \in DOMAIN child.genome}
  \cup {<<Obj("child", "attendees", <<k, 0>>), child.instances[k].attendees>> :
          k \in DOMAIN child.instances}

\* ------------------------------------------------------------------------
\* Inputs of solveSchedule
\* ------------------------------------------------------------------------

NoConstraints == NONE

\* Input 1: two rooms of one seat, electives only; session 10 is given three
\* times, so one attendee of slot 4 has no session left that is new to them.
World1 ==
  [advisors |-> << [id |-> 1, name |-> <<"A","n","n">>, preferences |-> <<10, 11>>],
                   [id |-> 2, name |-> <<"B","o","b">>, preferences |-> <<10>>] >>,
   sessions |-> << [id |-> 11, speaker |-> <<>>, type |-> "ELECTIVE", repeats |-> 1,
                    constraints |-> NoConstraints],
                   [id |-> 10, speaker |-> <<>>, type |-> "ELECTIVE", repeats |-> 3,
                    constraints |-> NoConstraints] >>,
   timeSlots |-> << [id |-> 2, day |-> 1, label |-> <<"0","8",".","1","5">>, type |-> "SESSION"],
                    [id |-> 3, day |-> 1, label |-> <<"0","9",".","1","5">>, type |-> "BREAK"],
                    [id |-> 4, day |-> 1, label |-> <<"0","9",".","3","0">>, type |-> "SESSION"] >>,
   rooms |-> << [id |-> "haagse", capacity |-> 1],
                [id |-> "witte", capacity |-> 1],
                [id |-> "molenhoek", capacity |-> 200] >>,
   fixedInstances |-> <<>>]

\* Input 2: the plenary, one mandatory session fixed in slots 4 and 6, and two
\* electives in rooms of one seat; nobody presents.
World2 ==
  [advisors |-> << [id |-> 1, name |-> <<"J","."," ","V","o","s">>, preferences |-> <<10>>],
                   [id |-> 2, name |-> <<"B","o","b">>, preferences |-> <<10>>] >>,
   sessions |-> << [id |-> 46, speaker |-> <<>>, type |-> "PLENARY", repeats |-> 1,
                    constraints |-> NoConstraints],
                   [id |-> 1, speaker |-> <<>>, type |-> "MANDATORY", repeats |-> 2,
                    constraints |-> NoConstraints],
                   [id |-> 10, speaker |-> <<>>, type |-> "ELECTIVE", repeats |-> 1,
                    constraints |-> NoConstraints],
                   [id |-> 11, speaker |-> <<>>, type |-> "ELECTIVE", repeats |-> 1,
                    constraints |-> NoConstraints] >>,
   timeSlots |-> << [id |-> 2, day |-> 1, label |-> <<"0","8",".","1","5">>, type |-> "SESSION"],
                    [id |-> 4, day |-> 1, label |-> <<"0","9",".","3","0">>, type |-> "SESSION"],
                    [id |-> 6, day |-> 1, label |-> <<"1","0",".","3","0">>, type |-> "SESSION"] >>,
   rooms |-> << [id |-> "haagse", capacity |-> 1],
                [id |-> "witte", capacity |-> 1],
                [id |-> "molenhoek", capacity |-> 200] >>,
   fixedInstances |-> << [sessionId |-> 1, roomId |-> "haagse", slotId |-> 4],
                         [sessionId |-> 1, roomId |-> "haagse", slotId |-> 6] >>]

\* Input 3: advisor 1 gives elective 11, which is placed in both slots, so
\* advisor 1 is obligated for session 11 in slot 2 and in slot 4.
World3 ==
  [advisors |-> << [id |-> 1, name |-> <<"J","."," ","V","o","s">>, preferences |-> <<10>>],
                   [id |-> 2, name |-> <<"B","o","b">>, preferences |-> <<11, 10>>] >>,
   sessions |-> << [id |-> 11, speaker |-> <<"V","o","s">>, type |-> "ELECTIVE",
                    repeats |-> 2, constraints |-> NoConstraints],
                   [id |-> 10, speaker |-> <<>>, type |-> "ELECTIVE", repeats |-> 1,
                    constraints |-> NoConstraints] >>,
   timeSlots |-> << [id |-> 2, day |-> 1, label |-> <<"0","8",".","1","5">>, type |-> "SESSION"],
                    [id |-> 4, day |-> 1, label |-> <<"0","9",".","3","0">>, type |-> "SESSION"] >>,
   rooms |-> << [id |-> "haagse", capacity |-> 1],
                [id |-> "witte", capacity |-> 1],
                [id |-> "molenhoek", capacity |-> 200] >>,
   fixedInstances |-> <<>>]

\* Input 4: as input 3, but elective 10 names "Vos en Bob" as its speakers,
\* so advisor 1 is obligated for two sessions of one slot.
World4 ==
  [World3 EXCEPT !.sessions[2].speaker = <<"V","o","s"," ","e","n"," ","B","o","b">>]

\* Input 5: as input 2 with two seats in witte, and advisor 1 speaking at the
\* plenary: every advisor can be seated everywhere.
World5 ==
  [World2 EXCEPT !.rooms[2].capacity = 2, !.sessions[1].speaker = <<"V","o","s">>]

\* Input 6: as input 1, but advisor 1 gives elective 11, which only advisor 2
\* has asked for, in the one-seat room of slot 4.
World6 ==
  [World1 EXCEPT !.advisors[1].preferences = <<10>>,
                 !.advisors[2].preferences = <<10, 11>>,
                 !.sessions[1].speaker = <<"A","n","n">>]

\* Input 7: advisor 1 gives the mandatory session 1, fixed in slots 2 and 4,
\* and the elective 10 of slot 2, so advisor 1 is obligated for a mandatory
\* and an elective instance of one slot.
World7 ==
  [advisors |-> << [id |-> 1, name |-> <<"J","."," ","V","o","s">>, preferences |-> <<10>>],
                   [id |-> 2, name |-> <<"B","o","b">>, preferences |-> <<11>>] >>,
   sessions |-> << [id |-> 1, speaker |-> <<"V","o","s">>, type |-> "MANDATORY",
                    repeats |-> 2, constraints |-> NoConstraints],
                   [id |-> 10, speaker |-> <<"V","o","s">>, type |-> "ELECTIVE",
                    repeats |-> 1, constraints |-> NoConstraints],
                   [id |-> 11, speaker |-> <<>>, type |-> "ELECTIVE", repeats |-> 1,
                    constraints |-> NoConstraints] >>,
   timeSlots |-> << [id |-> 2, day |-> 1, label |-> <<"0","8",".","1","5">>, type |-> "SESSION"],
                    [id |-> 4, day |-> 1, label |-> <<"0","9",".","3","0">>, type |-> "SESSION"] >>,
   rooms |-> << [id |-> "haagse", capacity |-> 2],
                [id |-> "witte", capacity |-> 2],
                [id |-> "molenhoek", capacity |-> 200] >>,
   fixedInstances |-> << [sessionId |-> 1, roomId |-> "haagse", slotId |-> 2],
                         [sessionId |-> 1, roomId |-> "haagse", slotId |-> 4] >>]

\* Input 8: the mandatory session 1 is fixed in kinderdijk on day 2, where no
\* seat may be used; advisor 2 gives elective 11 in the one-seat room of the
\* same slot.
World8 ==
  [advisors |-> << [id |-> 1, name |-> <<"B","o","b">>, preferences |-> <<10>>],
                   [id |-> 2, name |-> <<"V","o","s">>, preferences |-> <<10>>] >>,
   sessions |-> << [id |-> 1, speaker |-> <<>>, type |-> "MANDATORY", repeats |-> 1,
                    constraints |-> NoConstraints],
                   [id |-> 10, speaker |-> <<>>, type |-> "ELECTIVE", repeats |-> 1,
                    constraints |-> NoConstraints],
                   [id |-> 11, speaker |-> <<"V","o","s">>, type |-> "ELECTIVE",
                    repeats |-> 1, constraints |-> NoConstraints] >>,
   timeSlots |-> << [id |-> 2, day |-> 1, label |-> <<"0","8",".","1","5">>, type |-> "SESSION"],
                    [id |-> 4, day |-> 2, label |-> <<"0","9",".","3","0">>, type |-> "SESSION"] >>,
   rooms |-> << [id |-> "kinderdijk", capacity |-> 1],
                [id |-> "haagse", capacity |-> 1],
                [id |-> "molenhoek", capacity |-> 200] >>,
   fixedInstances |-> << [sessionId |-> 1, roomId |-> "kinderdijk", slotId |-> 4] >>]

Worlds == <<World1, World2, World3, World4, World5, World6, World7, World8>>

\* what solveSchedule derives once from its inputs
MakeContext(world) ==
  LET masterOptions == generateSmartMasterOptions(world.sessions, world.rooms,
                         world.timeSlots, world.fixedInstances, world.advisors)
  IN  [advisors |-> world.advisors, sessions |-> world.sessions,
       rooms |-> world.rooms, timeSlots |-> world.timeSlots,
       masterOptions |-> masterOptions,
       presenterObligations |-> buildPresenterObligations(world.sessions,
                                  world.advisors, masterOptions)]

Contexts == [i \in DOMAIN Worlds |-> MakeContext(Worlds[i])]

\* The full-pipeline scenario at one fifth of its size: rooms of 2, 2 and 4
\* seats for 10, 10 and 20, four session slots, one mandatory session given
\* twice, three electives of which elective number e is to be given
\* repeats[e] times, and 3 attendees for 15, with the preference lists
\* prefs[1], prefs[2], prefs[3]; nobody presents.
PipelineWorld(prefs, repeats) ==
  [advisors |-> << [id |-> 1, name |-> <<"A","n","n">>, preferences |-> prefs[1]],
                   [id |-> 2, name |-> <<"B","o","b">>, preferences |-> prefs[2]],
                   [id |-> 3, name |-> <<"C","a","s">>, preferences |-> prefs[3]] >>,
   sessions |-> << [id |-> 1, speaker |-> <<>>, type |-> "MANDATORY", repeats |-> 2,
                    constraints |-> NoConstraints],
                   [id |-> 10, speaker |-> <<>>, type |-> "ELECTIVE", repeats |-> repeats[1],
                    constraints |-> NoConstraints],
                   [id |-> 11, speaker |-> <<>>, type |-> "ELECTIVE", repeats |-> repeats[2],
                    constraints |-> NoConstraints],
                   [id |-> 12, speaker |-> <<>>, type |-> "ELECTIVE", repeats |-> repeats[3],
                    constraints |-> NoConstraints] >>,
   timeSlots |-> << [id |-> 2, day |-> 1, label |-> <<"0","8",".","1","5">>, type |-> "SESSION"],
                    [id |-> 4, day |-> 1, label |-> <<"0","9",".","3","0">>, type |-> "SESSION"],
                    [id |-> 6, day |-> 1, label |-> <<"1","0",".","3","0">>, type |-> "SESSION"],
                    [id |-> 8, day |-> 1, label |-> <<"1","1",".","3","0">>, type |-> "SESSION"] >>,
   rooms |-> << [id |-> "haagse", capacity |-> 2],
                [id |-> "witte", capacity |-> 2],
                [id |-> "princeville", capacity |-> 4] >>,
   fixedInstances |-> <<>>]

\* the preference lists the three attendees hand in: one attendee without a
\* wish and two with opposite ones, the same list for all, nearly the same
\* list for all, no wish at all, wishes that do not meet, and full lists in
\* different orders
PipelinePreferences ==
  {<< <<>>, <<10, 11, 12>>, <<12, 10>> >>,
   << <<10, 11, 12>>, <<10, 11, 12>>, <<10, 11, 12>> >>,
   << <<12, 10>>, <<12, 10>>, <<10>> >>,
   << <<>>, <<>>, <<>> >>,
   << <<11>>, <<10>>, <<12, 11>> >>,
   << <<10, 11, 12>>, <<12, 11, 10>>, <<11>> >>}

\* how often the three electives are to be given
PipelineRepeats == {<<1, 1, 1>>, <<2, 2, 2>>}

PipelineContexts ==
  {MakeContext(PipelineWorld(prefs, repeats)) :
     prefs \in PipelinePreferences, repeats \in PipelineRepeats}

\* The inputs on which the start of solveSchedule is examined: the plenary
\* 46, the mandatory session 1 to be given repeats times and the mandatory
\* session 2 to be given once, the electives 10 and 11; the plenary room, the room closed on day 2, a room of cap seats
\* and a large one; two session slots and a break on day 1, one session slot
\* on day 2; the first attendee and the speaker field of elective 10 are
\* who.name and who.speaker.
SetupWorld(fixed, who, repeats, cap) ==
  [advisors |-> << [id |-> 1, name |-> who.name, preferences |-> <<10>>],
                   [id |-> 2, name |-> <<"B","o","b">>, preferences |-> <<10, 11>>] >>,
   sessions |-> << [id |-> 46, speaker |-> <<>>, type |-> "PLENARY", repeats |-> 1,
                    constraints |-> NoConstraints],
                   [id |-> 1, speaker |-> <<>>, type |-> "MANDATORY", repeats |-> repeats,
                    constraints |-> NoConstraints],
                   [id |-> 2, speaker |-> <<>>, type |-> "MANDATORY", repeats |-> 1,
                    constraints |-> NoConstraints],
                   [id |-> 10, speaker |-> who.speaker, type |-> "ELECTIVE", repeats |-> 1,
                    constraints |-> NoConstraints],
                   [id |-> 11, speaker |-> <<>>, type |-> "ELECTIVE", repeats |-> 1,
                    constraints |-> NoConstraints] >>,
   timeSlots |-> << [id |-> 2, day |-> 1, label |-> <<"0","8",".","1","5">>, type |-> "SESSION"],
                    [id |-> 3, day |-> 1, label |-> <<"0","9",".","1","5">>, type |-> "BREAK"],
                    [id |-> 4, day |-> 1, label |-> <<"0","9",".","3","0">>, type |-> "SESSION"],
                    [id |-> 10, day |-> 2, label |-> <<"0","9",".","0","0">>, type |-> "SESSION"] >>,
   rooms |-> << [id |-> "molenhoek", capacity |-> 200],
                [id |-> "kinderdijk", capacity |-> 27],
                [id |-> "haagse", capacity |-> cap],
                [id |-> "leeuw2", capacity |-> 45] >>,
   fixedInstances |-> fixed]

\* the placements a fixed list is made of
FixedPlacements ==
  {[sessionId |-> 46, roomId |-> "molenhoek", slotId |-> 2],
   [sessionId |-> 46, roomId |-> "molenhoek", slotId |-> 4],
   [sessionId |-> 46, roomId |-> "haagse", slotId |-> 4],
   [sessionId |-> 10, roomId |-> "molenhoek", slotId |-> 2],
   [sessionId |-> 1, roomId |-> "haagse", slotId |-> 2],
   [sessionId |-> 1, roomId |-> "kinderdijk", slotId |-> 10],
   [sessionId |-> 10, roomId |-> "leeuw2", slotId |-> 3]}

\* the fixed lists: none, one or two placements
SetupFixed ==
  {<<>>} \cup {<<f>> : f \in FixedPlacements}
         \cup {<<f, h>> : f \in FixedPlacements, h \in FixedPlacements}

\* the first attendee's name and the speaker field of elective 10: a name
\* that is part of a fragment, a name that holds a fragment, and no speaker
SetupNames ==
  {[name |-> <<"V","o","s">>, speaker |-> <<"J","."," ","V","o","s">>],
   [name |-> <<"J","a","n"," ","V","o","s">>,
    speaker |-> <<"V","o","s"," ","/"," ","D","e"," ","B","o","e","r">>],
   [name |-> <<"A","n","n">>, speaker |-> <<>>]}

\* how often the mandatory session is to be given: less than, and more than,
\* the six pairs of a day-1 session slot and an ordinary room
SetupRepeats == {2, 7}

\* the seats of room haagse: at and above the small-room threshold
SetupSeats == {27, 28}

SetupWorlds ==
  {SetupWorld(fixed, who, repeats, cap) :
     fixed \in SetupFixed, who \in SetupNames, repeats \in SetupRepeats, cap \in SetupSeats}

\* ------------------------------------------------------------------------
\* solveSchedule as a state machine
\* ------------------------------------------------------------------------

\* GA_CONFIG and the loop limits, scaled down
POPULATION_SIZE == 3
ELITISM_COUNT == 2
TOP_K_LOCAL_SEARCH == 1
MAX_GENERATIONS == 3
SAFE_BREAK_LIMIT == 3
TOURNAMENT_SIZE == 4

VARIABLES
  ctx,             \* the inputs of the call with masterOptions and
                   \* presenterObligations, which solveSchedule derives once
  population,      \* the population, a sequence of Individuals
  newPop,          \* the next generation while it is bred
  generation,
  repairAttempts,
  pc               \* "loop", "breed", "repair", "done", or "hung" when a
                   \* repair pass never returns

vars == <<ctx, population, newPop, generation, repairAttempts, pc>>

\* population.sort((a, b) => b.fitness - a.fitness)
sortByFitness(pop) == StableSort(pop, LAMBDA a, b : a.fitness > b.fitness)

\* calculateFitness on what the repair pass left; nothing when it never returns
Scored(c, r) ==
  [ind |-> IF r.hung THEN r.ind ELSE calculateFitness(c, r.ind), hung |-> r.hung]

\* localSearch: [ind, hung]
localSearch(c, ind) == Scored(c, refineScheduleWithBulldozer(c, ind))

isPerfectSchedule(stats) ==
  /\ stats # NoStats
  /\ stats.mandatoryMetPercent = 100
  /\ stats.unfilledSlots = 0
  /\ stats.capacityViolations = 0
  /\ stats.duplicatesFound = 0

\* the champion after the contenders picks[i..] have been compared with it
RECURSIVE Tournament(_, _, _, _)
Tournament(pop, champion, picks, i) ==
  IF i > Len(picks) THEN champion
  ELSE Tournament(pop,
                  IF pop[picks[i]].fitness > pop[champion].fitness THEN picks[i]
                  ELSE champion,
                  picks, i + 1)

\* selectParent over all its random draws: the Individuals it can return
selectParent(pop) ==
  {pop[Tournament(pop, first, picks, 1)] :
     first \in 1..Min(Len(pop), CeilDiv(POPULATION_SIZE, 2)),
     picks \in [1..(TOURNAMENT_SIZE - 1) -> DOMAIN pop]}

\* population[i] replaced by what localSearch made of it; r = [pop, hung]
Searched(r, i, ls) == [pop |-> [r.pop EXCEPT ![i] = ls.ind], hung |-> ls.hung]

\* for (i < min(TOP_K_LOCAL_SEARCH, length)) localSearch(population[i])
RECURSIVE LocalSearchTop(_, _, _)
LocalSearchTop(c, r, i) ==
  IF i > Min(TOP_K_LOCAL_SEARCH, Len(r.pop)) \/ r.hung THEN r
  ELSE LocalSearchTop(c, Searched(r, i, localSearch(c, r.pop[i])), i + 1)

\* the test of the strict repair loop on best.stats
NeedsRepair(best) ==
  \/ best.stats.mandatoryMetPercent < 100
  \/ best.stats.unfilledSlots > 0
  \/ best.stats.capacityViolations > 0

\* the initial population: createRandomIndividual draws no random number, so
\* its POPULATION_SIZE Individuals are equal
InitialPopulation(first) == [i \in 1..POPULATION_SIZE |-> first]

Init ==
  /\ ctx \in {Contexts[i] : i \in DOMAIN Contexts}
  /\ population = InitialPopulation(calculateFitness(ctx, createRandomIndividual(ctx)))
  /\ newPop = <<>>
  /\ generation = 0
  /\ repairAttempts = 0
  /\ pc = "loop"

\* the rest of the loop body once the population is sorted again: the break
\* on a perfect schedule, or the elitism copy that starts the breeding
AfterSecondSort(sorted) ==
  /\ population' = sorted
  /\ IF isPerfectSchedule(sorted[1].stats)
     THEN pc' = "repair" /\ newPop' = newPop
     ELSE pc' = "breed" /\ newPop' = SubSeq(sorted, 1, Min(ELITISM_COUNT, Len(sorted)))

AfterLocalSearch(r) ==
  IF r.hung
  THEN pc' = "hung" /\ population' = r.pop /\ newPop' = newPop
  ELSE AfterSecondSort(sortByFitness(r.pop))

\* one generation up to the elitism copy: sort, local search, sort
LocalSearchStep ==
  /\ pc = "loop"
  /\ generation < MAX_GENERATIONS
  /\ AfterLocalSearch(
       LocalSearchTop(ctx, [pop |-> sortByFitness(population), hung |-> FALSE], 1))
  /\ UNCHANGED <<ctx, generation, repairAttempts>>

\* the loop test fails: on the generation cap, or because
\* Date.now() - startTime has reached TIME_LIMIT_MS
ExitLoop ==
  /\ population' = sortByFitness(population)
  /\ pc' = "repair"
  /\ UNCHANGED <<ctx, newPop, generation, repairAttempts>>

TimeLimit ==
  /\ pc = "loop"
  /\ generation < MAX_GENERATIONS
  /\ ExitLoop

GenerationCap ==
  /\ pc = "loop"
  /\ generation >= MAX_GENERATIONS
  /\ ExitLoop

\* newPop.push(child), and  population = newPop; generation++  when the
\* inner loop ends with it
Push(next) ==
  IF Len(next) < POPULATION_SIZE
  THEN newPop' = next /\ UNCHANGED <<population, generation, pc>>
  ELSE /\ population' = next
       /\ newPop' = <<>>
       /\ generation' = generation + 1
       /\ pc' = "loop"

\* one iteration of  while (newPop.length < POPULATION_SIZE)
Breed ==
  /\ pc = "breed"
  /\ Len(newPop) < POPULATION_SIZE
  /\ \E p1, p2 \in selectParent(population) :
       \E heads \in SUBSET ContestedPairs(ctx, p1, p2), fired \in BOOLEAN :
         \E child \in MutationOutcomes(ctx, crossoverIndividuals(ctx, p1, p2, heads), fired) :
           Push(Append(newPop, calculateFitness(ctx, child)))
  /\ UNCHANGED <<ctx, repairAttempts>>

Repaired(ls) ==
  /\ population' = [population EXCEPT ![1] = ls.ind]
  /\ IF ls.hung
     THEN pc' = "hung" /\ UNCHANGED repairAttempts
     ELSE pc' = pc /\ repairAttempts' = repairAttempts + 1

\* one iteration of the strict repair loop on best = population[0]
RepairStep ==
  /\ pc = "repair"
  /\ repairAttempts < SAFE_BREAK_LIMIT
  /\ NeedsRepair(population[1])
  /\ Repaired(localSearch(ctx, population[1]))
  /\ UNCHANGED <<ctx, newPop, generation>>

\* return { instances: best.instances, ... }
Return ==
  /\ pc = "repair"
  /\ ~(repairAttempts < SAFE_BREAK_LIMIT /\ NeedsRepair(population[1]))
  /\ pc' = "done"
  /\ UNCHANGED <<ctx, population, newPop, generation, repairAttempts>>

Next ==
  \/ LocalSearchStep
  \/ TimeLimit
  \/ GenerationCap
  \/ Breed
  \/ RepairStep
  \/ Return

Spec == Init /\ [][Next]_vars

\* solveSchedule called on the full-pipeline scenario
PipelineInit ==
  /\ ctx \in PipelineContexts
  /\ population = InitialPopulation(calculateFitness(ctx, createRandomIndividual(ctx)))
  /\ newPop = <<>>
  /\ generation = 0
  /\ repairAttempts = 0
  /\ pc = "loop"

PipelineSpec == PipelineInit /\ [][Next]_vars

\* The start of solveSchedule, step by step: the menu, then the presenter
\* obligations.  ctx holds the inputs, with the fixed placements, and what
\* has been derived from them so far.
SetupInit ==
  /\ ctx \in {[advisors |-> w.advisors, sessions |-> w.sessions, rooms |-> w.rooms,
               timeSlots |-> w.timeSlots, fixedInstances |-> w.fixedInstances,
               masterOptions |-> <<>>, presenterObligations |-> <<>>] : w \in SetupWorlds}
  /\ population = <<>>
  /\ newPop = <<>>
  /\ generation = 0
  /\ repairAttempts = 0
  /\ pc = "menu"

GenerateMenu ==
  /\ pc = "menu"
  /\ ctx' = [ctx EXCEPT !.masterOptions =
               generateSmartMasterOptions(ctx.sessions, ctx.rooms, ctx.timeSlots,
                                          ctx.fixedInstances, ctx.advisors)]
  /\ pc' = "obligations"
  /\ UNCHANGED <<population, newPop, generation, repairAttempts>>

BuildObligations ==
  /\ pc = "obligations"
  /\ ctx' = [ctx EXCEPT !.presenterObligations =
               buildPresenterObligations(ctx.sessions, ctx.advisors, ctx.masterOptions)]
  /\ pc' = "populate"
  /\ UNCHANGED <<population, newPop, generation, repairAttempts>>

SetupNext ==
  \/ GenerateMenu
  \/ BuildObligations

SetupSpec == SetupInit /\ [][SetupNext]_vars

\* ------------------------------------------------------------------------
\* Properties
\* ------------------------------------------------------------------------

\* the Individuals solveSchedule holds
Individuals ==
  {population[i] : i \in DOMAIN population} \cup {newPop[i] : i \in DOMAIN newPop}

\* the attendees whose genome holds a gene with the instance's triple
Holders(ind, inst) ==
  {ind.genome[a].advId : a \in {b \in DOMAIN ind.genome :
     \E i \in DOMAIN ind.genome[b].genes : SameTriple(ind.genome[b].genes[i], inst)}}

Attendees(inst) == {inst.attendees[i] : i \in DOMAIN inst.attendees}

\* genome/instance consistency of one Individual
Consistent(ind) ==
  \A k \in DOMAIN ind.instances : Attendees(ind.instances[k]) = Holders(ind, ind.instances[k])

\* C1: every Individual that solveSchedule holds is consistent: each
\* instance's attendees are exactly the attendees whose genome holds a gene
\* with that instance's session, slot and room.
C1_Consistency == pc # "hung" => \A x \in Individuals : Consistent(x)

\* the Individuals on which the next step of solveSchedule calls the repair
\* pass: the top of the sorted population inside the generation loop, best
\* inside the strict repair loop
RepairInputs ==
  IF pc = "loop" /\ generation < MAX_GENERATIONS
  THEN {sortByFitness(population)[i] :
          i \in 1..Min(TOP_K_LOCAL_SEARCH, Len(population))}
  ELSE IF pc = "repair" /\ repairAttempts < SAFE_BREAK_LIMIT /\ NeedsRepair(population[1])
  THEN {population[1]}
  ELSE {}

\* what the repair pass leaves of those it returns from
RepairOutputs ==
  {r.ind : r \in {y \in {refineScheduleWithBulldozer(ctx, x) : x \in RepairInputs} :
                    ~y.hung}}

\* the same after the fitness evaluation that follows every repair pass
SearchOutputs == {calculateFitness(ctx, y) : y \in RepairOutputs}

\* C2: the repair pass preserves consistency: called on a consistent
\* Individual, it returns a consistent Individual.
C2_RepairPreservesConsistency ==
  \A x \in RepairInputs :
    Consistent(x) /\ ~refineScheduleWithBulldozer(ctx, x).hung
      => Consistent(refineScheduleWithBulldozer(ctx, x).ind)

\* the number of instances of the session whose attendee list has advId
SeatsIn(ind, sessionId, advId) ==
  Cardinality({k \in DOMAIN ind.instances :
                 /\ ind.instances[k].sessionId = sessionId
                 /\ advId \in Attendees(ind.instances[k])})

\* C3: in an Individual the repair pass leaves with perfect stats, every
\* attendee is on the attendee list of exactly one instance of each
\* mandatory and each plenary session.
C3_MandatoryExactlyOnce ==
  \A y \in SearchOutputs :
    isPerfectSchedule(y.stats)
      => \A a \in DOMAIN ctx.advisors, m \in DOMAIN MandatoryOrPlenary(ctx.sessions) :
           SeatsIn(y, MandatoryOrPlenary(ctx.sessions)[m].id, ctx.advisors[a].id) = 1

WithinCapacity(c, ind) ==
  \A k \in DOMAIN ind.instances : Len(ind.instances[k].attendees) <= Cap(c, ind.instances[k])

\* C4: when the repair pass returns, no instance has more attendees than
\* getStrictCapacity allows.
C4_CapacityAfterRepair == \A y \in RepairOutputs : WithinCapacity(ctx, y)

NoDuplicateSession(ind) ==
  \A a \in DOMAIN ind.genome :
    \A i, j \in DOMAIN ind.genome[a].genes :
      i # j => ind.genome[a].genes[i].sessionId # ind.genome[a].genes[j].sessionId

\* C5: when the repair pass returns, no attendee holds two genes with the
\* same session.
C5_NoDuplicateAfterRepair == \A y \in RepairOutputs : NoDuplicateSession(y)

NoAttendeeTwice(ind) ==
  /\ \A k \in DOMAIN ind.instances :
       \A i, j \in DOMAIN ind.instances[k].attendees :
         i # j => ind.instances[k].attendees[i] # ind.instances[k].attendees[j]
  /\ \A k, l \in DOMAIN ind.instances :
       k # l /\ ind.instances[k].slotId = ind.instances[l].slotId
         => Attendees(ind.instances[k]) \cap Attendees(ind.instances[l]) = {}

\* C6: after a repair pass and the fitness evaluation, no attendee list has
\* an attendee twice, and no attendee is on the lists of two instances of
\* one slot.
C6_NoAttendeeTwice == \A y \in SearchOutputs : NoAttendeeTwice(y)

ObligationInPlace(ind, ob) ==
  /\ MapHas(GenesOf(ind, ob.advId), ob.slotId)
  /\ MapGet(GenesOf(ind, ob.advId), ob.slotId).sessionId = ob.sessionId
  /\ MapGet(GenesOf(ind, ob.advId), ob.slotId).roomId = ob.roomId

ObligationsInPlace(c, ind) ==
  \A i \in DOMAIN FlattenObligations(c.presenterObligations) :
    ObligationInPlace(ind, FlattenObligations(c.presenterObligations)[i])

\* C7: when the repair pass returns, every presenter obligation's attendee
\* holds, at the obligation's slot, the gene of the obligation's session and
\* room.
C7_ObligationsKept == \A y \in RepairOutputs : ObligationsInPlace(ctx, y)

\* the Individual has no defect the repair pass is there to mend
Feasible(c, ind) ==
  /\ Consistent(ind)
  /\ ObligationsInPlace(c, ind)
  /\ \A a \in DOMAIN c.advisors, m \in DOMAIN MandatoryOrPlenary(c.sessions) :
       isAttendingSession(ind, c.advisors[a].id, MandatoryOrPlenary(c.sessions)[m].id)
  /\ \A a \in DOMAIN c.advisors, t \in DOMAIN sessionSlotsOf(c) :
       isBusy(ind, c.advisors[a].id, sessionSlotsOf(c)[t])
  /\ NoDuplicateSession(ind)
  /\ WithinCapacity(c, ind)

GenomeAsSets(ind) ==
  UNION {{<<ind.genome[a].advId, TripleKey(ind.genome[a].genes[i])>> :
            i \in DOMAIN ind.genome[a].genes} : a \in DOMAIN ind.genome}

ListsAsSets(ind) == [k \in DOMAIN ind.instances |-> Attendees(ind.instances[k])]

\* C8: the repair pass changes neither the genome nor any attendee list (as
\* sets) of a feasible Individual.
C8_IdentityOnFeasible ==
  \A x \in RepairInputs :
    Feasible(ctx, x)
      => /\ ~refineScheduleWithBulldozer(ctx, x).hung
         /\ GenomeAsSets(refineScheduleWithBulldozer(ctx, x).ind) = GenomeAsSets(x)
         /\ ListsAsSets(refineScheduleWithBulldozer(ctx, x).ind) = ListsAsSets(x)

\* the case of C8: the repair pass is called on a feasible Individual of a
\* schedule with a presenter obligation
C8_FeasibleInput ==
  \E x \in RepairInputs :
    Feasible(ctx, x) /\ FlattenObligations(ctx.presenterObligations) # <<>>

\* C9: a second repair pass with fitness evaluation leaves the genome, the
\* attendee lists and the fitness as the first left them.
C9_Idempotent ==
  \A y \in SearchOutputs :
    /\ ~localSearch(ctx, y).hung
    /\ localSearch(ctx, y).ind.genome = y.genome
    /\ localSearch(ctx, y).ind.instances = y.instances
    /\ localSearch(ctx, y).ind.fitness = y.fitness

\* how far solveSchedule has come: the generations bred, the children of the
\* current one, the repair attempts, the return; nothing for a call that is
\* stuck in a repair pass
Progress ==
  IF pc = "loop" THEN generation * (POPULATION_SIZE + 2)
  ELSE IF pc = "breed" THEN generation * (POPULATION_SIZE + 2) + 1 + Len(newPop)
  ELSE IF pc = "repair" THEN (MAX_GENERATIONS + 1) * (POPULATION_SIZE + 2) + repairAttempts
  ELSE IF pc = "done" THEN (MAX_GENERATIONS + 1) * (POPULATION_SIZE + 2) + SAFE_BREAK_LIMIT + 1
  ELSE 0

\* C10: solveSchedule terminates: every step brings it nearer to its return,
\* with at most MAX_GENERATIONS generations and SAFE_BREAK_LIMIT repair
\* attempts on the way, and no repair pass fails to return.
C10_Terminates ==
  [][/\ Progress' > Progress
     /\ generation' <= MAX_GENERATIONS
     /\ repairAttempts' <= SAFE_BREAK_LIMIT
     /\ pc' # "hung"]_vars

\* C11: when solveSchedule returns, either the returned stats satisfy every
\* hard constraint (mandatoryMetPercent = 100, unfilledSlots = 0,
\* capacityViolations = 0, duplicatesFound = 0) or the strict repair loop has
\* made all of its SAFE_BREAK_LIMIT attempts.
C11_PerfectOrRepairCap ==
  pc = "done" =>
    isPerfectSchedule(population[1].stats) \/ repairAttempts = SAFE_BREAK_LIMIT

\* C12: in the full-pipeline scenario, whatever the preference lists and the
\* random draws, the stats solveSchedule returns have mandatoryMetPercent =
\* 100 and capacityViolations = 0.
C12_PipelineScenario ==
  pc = "done" =>
    /\ population[1].stats.mandatoryMetPercent = 100
    /\ population[1].stats.capacityViolations = 0

\* the case of C12: solveSchedule returns, after a strict repair, a schedule
\* of the scenario in which a room of two seats is full
C12_PipelineReturned ==
  /\ pc = "done"
  /\ repairAttempts > 0
  /\ \E k \in DOMAIN population[1].instances :
       /\ population[1].instances[k].roomId # "princeville"
       /\ Len(population[1].instances[k].attendees) = Cap(ctx, population[1].instances[k])

\* the Individuals on which the repair passes of the next step run PHASE 4
Phase4Inputs ==
  {Phase3(ctx, Phase2(ctx, Phase1(ctx,
     enforcePresenterObligations(x, ctx.presenterObligations, ctx.masterOptions)))) :
     x \in RepairInputs}

\* a is the one attendee of instance k with the worst rank for its session
UniqueWorst(c, ind, k, a) ==
  /\ a \in Attendees(ind.instances[k])
  /\ \A b \in Attendees(ind.instances[k]) \ {a} :
       RankOf(c, b, ind.instances[k].sessionId) < RankOf(c, a, ind.instances[k].sessionId)

\* instance d, in the slot of k, has a spare seat and is a's first preference
SpareFirstChoice(c, ind, k, a, d) ==
  /\ d # k
  /\ ind.instances[d].slotId = ind.instances[k].slotId
  /\ ind.instances[d].sessionId # ind.instances[k].sessionId
  /\ HasSpace(c, ind.instances[d])
  /\ RankOf(c, a, ind.instances[d].sessionId) = 0

\* the scenario: instance k holds extra attendees more than its capacity
RebalanceScenario(c, ind, k, a, d, extra) ==
  /\ Len(ind.instances[k].attendees) = Cap(c, ind.instances[k]) + extra
  /\ UniqueWorst(c, ind, k, a)
  /\ SpareFirstChoice(c, ind, k, a, d)

\* PHASE 4 returns out, having moved a from k to d and nobody else anywhere
RelocatesOnly(ind, out, k, a, d) ==
  /\ ~out.hung
  /\ MapGet(GenesOf(out.ind, a), ind.instances[k].slotId) = GeneOf(ind.instances[d])
  /\ \A b \in {ind.genome[i].advId : i \in DOMAIN ind.genome} \ {a} :
       GenesOf(out.ind, b) = GenesOf(ind, b)
  /\ \A x \in DOMAIN ind.instances :
       Attendees(out.ind.instances[x]) =
         IF x = k THEN Attendees(ind.instances[k]) \ {a}
         ELSE IF x = d THEN Attendees(ind.instances[d]) \cup {a}
         ELSE Attendees(ind.instances[x])

RebalanceSetting(c, ind, k, a, d) ==
  /\ MapGet(GenesOf(ind, a), ind.instances[k].slotId) = GeneOf(ind.instances[k])
  /\ ~HasPresenterConflict(c.presenterObligations, ind.instances[k].slotId, a)
  /\ \A x \in DOMAIN ind.instances \ {k} : WithinCapacity(c, [instances |-> <<ind.instances[x]>>])
  /\ \A x \in DOMAIN ind.instances \ {d} :
       ~(/\ ind.instances[x].slotId = ind.instances[d].slotId
         /\ ind.instances[x].sessionId = ind.instances[d].sessionId
         /\ HasSpace(c, ind.instances[x]))

TypeOfSession(c, sessionId) ==
  IF ById(c.sessions, sessionId) = NONE THEN "" ELSE ById(c.sessions, sessionId).type

SpeakerFragments(speaker) ==
  LET parts == splitSpeaker(speaker)
  IN  {normalizeName(parts[i]) : i \in DOMAIN parts} \ {<<>>}

\* the obligations hold one for this attendee at this instance's session and slot
ObligatedAt(obligations, advId, inst) ==
  \E k \in DOMAIN obligations :
     /\ obligations[k].slotId = inst.slotId
     /\ \E i \in DOMAIN obligations[k].list :
          /\ obligations[k].list[i].advId = advId
          /\ obligations[k].list[i].sessionId = inst.sessionId
          /\ obligations[k].list[i].slotId = inst.slotId

\* C15: buildPresenterObligations gives attendee A an obligation at a placed
\* instance of session S exactly when, for some normalized fragment f of the
\* speaker field of S, the normalized name of A is a substring of f or
\* contains f.
C15_ObligatedBothWays ==
  pc = "populate" =>
    \A a \in DOMAIN ctx.advisors, k \in DOMAIN ctx.masterOptions :
      LET session == ById(ctx.sessions, ctx.masterOptions[k].sessionId)
          name == normalizeName(ctx.advisors[a].name)
      IN  ObligatedAt(ctx.presenterObligations, ctx.advisors[a].id, ctx.masterOptions[k])
          <=> /\ session # NONE
              /\ \E f \in SpeakerFragments(session.speaker) :
                   StrIncludes(f, name) \/ StrIncludes(name, f)

\* no two entries of the list lie at one (slot, room) pair
DistinctPairs(list) ==
  \A i, j \in DOMAIN list :
    i # j => ~(list[i].slotId = list[j].slotId /\ list[i].roomId = list[j].roomId)

\* C16: for fixed placements that are pairwise distinct in (slot, room), a
\* placement in the plenary room at slot 2 included, the menu returned by
\* generateSmartMasterOptions holds at most one instance per (slot, room).
C16_OneInstancePerPair ==
  (pc # "menu" /\ DistinctPairs(ctx.fixedInstances)) => DistinctPairs(ctx.masterOptions)

\* the entries of the list that are instances of a PLENARY session
PlenaryIn(c, list) ==
  {i \in DOMAIN list : TypeOfSession(c, list[i].sessionId) = "PLENARY"}

\* C17: when the fixed placements hold an instance of the PLENARY session, in
\* whatever slot or room, the menu holds no plenary instance besides the
\* fixed ones; otherwise it holds exactly one, in room molenhoek at slot 2.
C17_PlenaryPlacedOnce ==
  pc # "menu" =>
    LET fixed == PlenaryIn(ctx, ctx.fixedInstances)
        placed == PlenaryIn(ctx, ctx.masterOptions)
    IN  IF fixed # {}
        THEN Cardinality(placed) = Cardinality(fixed)
        ELSE /\ Cardinality(placed) = 1
             /\ \A k \in placed : /\ ctx.masterOptions[k].roomId = "molenhoek"
                                  /\ ctx.masterOptions[k].slotId = 2

\* the mandatory sessions in the order of their placement
MandatorySessions(c) == Filter(c.sessions, LAMBDA s : s.type = "MANDATORY")

\* the menu after the mandatory pass and the length it had before
MandatoryPass(c) ==
  LET passes == GeneratorPasses(c.sessions, c.rooms, c.timeSlots, c.fixedInstances, c.advisors)
  IN  [before |-> Len(passes[2].mo), mo |-> passes[3].mo]

\* the instances the mandatory pass, which left m, added for the i-th
\* mandatory session
AddedFor(c, m, i) ==
  {k \in (m.before + 1)..Len(m.mo) : m.mo[k].sessionId = MandatorySessions(c)[i].id}

\* the instances the menu held when the i-th mandatory session was placed
PlacedBefore(c, m, i) ==
  {k \in DOMAIN m.mo :
     \/ k <= m.before
     \/ \E j \in 1..(i - 1) : m.mo[k].sessionId = MandatorySessions(c)[j].id}

\* repeats minus the number already placed, at least 0
NeededFor(c, m, i) ==
  Max(0, MandatorySessions(c)[i].repeats
         - Cardinality({k \in 1..m.before : m.mo[k].sessionId = MandatorySessions(c)[i].id}))

\* a day-1 session slot and a room other than the plenary room, with seats
\* for the session
EligiblePair(c, sessionId, slotId, roomId) ==
  /\ \E t \in DOMAIN c.timeSlots :
       /\ c.timeSlots[t].id = slotId
       /\ c.timeSlots[t].type = "SESSION"
       /\ c.timeSlots[t].day = 1
  /\ \E r \in DOMAIN c.rooms : c.rooms[r].id = roomId
  /\ roomId # "molenhoek"
  /\ getStrictCapacity(roomId, sessionId, slotId, c.rooms, c.timeSlots, c.sessions) > 0

\* no instance of the set lies at the pair
UnusedBy(m, held, slotId, roomId) ==
  \A k \in held : ~(m.mo[k].slotId = slotId /\ m.mo[k].roomId = roomId)

\* the eligible pairs nothing was placed at when the i-th mandatory session
\* had its turn
FreePairsFor(c, m, i) ==
  {pair \in {c.timeSlots[t].id : t \in DOMAIN c.timeSlots}
            \X {c.rooms[r].id : r \in DOMAIN c.rooms} :
     /\ EligiblePair(c, MandatorySessions(c)[i].id, pair[1], pair[2])
     /\ UnusedBy(m, PlacedBefore(c, m, i), pair[1], pair[2])}

\* C18: for each MANDATORY session the generator adds at most
\* max(0, repeats - number already placed) instances, exactly that many when
\* there are that many unused eligible pairs, and each instance it adds lies
\* in a day-1 SESSION slot, in a room other than the plenary room, with
\* getStrictCapacity > 0, at a pair no earlier instance of the menu lies at.
C18_MandatoryPlacement ==
  pc # "menu" =>
    LET m == MandatoryPass(ctx)
    IN  /\ SubSeq(ctx.masterOptions, 1, Len(m.mo)) = m.mo
        /\ \A i \in DOMAIN MandatorySessions(ctx) :
             /\ Cardinality(AddedFor(ctx, m, i)) <= NeededFor(ctx, m, i)
             /\ Cardinality(FreePairsFor(ctx, m, i)) >= NeededFor(ctx, m, i)
                  => Cardinality(AddedFor(ctx, m, i)) = NeededFor(ctx, m, i)
             /\ \A k \in AddedFor(ctx, m, i) :
                  /\ EligiblePair(ctx, m.mo[k].sessionId, m.mo[k].slotId, m.mo[k].roomId)
                  /\ UnusedBy(m, 1..(k - 1), m.mo[k].slotId, m.mo[k].roomId)

\* the case of C18: the menu is built; one mandatory session got all the
\* instances it needed although a pair it came by was taken, and another got
\* fewer than it needed
C18_PlacedAndShort ==
  /\ pc # "menu"
  /\ LET m == MandatoryPass(ctx)
     IN  /\ \E i \in DOMAIN MandatorySessions(ctx) :
              /\ NeededFor(ctx, m, i) > 0
              /\ Cardinality(AddedFor(ctx, m, i)) = NeededFor(ctx, m, i)
              /\ \E k \in PlacedBefore(ctx, m, i) :
                   EligiblePair(ctx, MandatorySessions(ctx)[i].id,
                                m.mo[k].slotId, m.mo[k].roomId)
         /\ \E i \in DOMAIN MandatorySessions(ctx) :
              Cardinality(AddedFor(ctx, m, i)) < NeededFor(ctx, m, i)

\* the instance list is the menu, entry by entry, but for the attendees
IsMenu(instances, masterOptions) ==
  /\ Len(instances) = Len(masterOptions)
  /\ \A k \in DOMAIN masterOptions :
       [instances[k] EXCEPT !.attendees = <<>>] = masterOptions[k]

\* C19: the menu is frozen: the instance list of every Individual that
\* solveSchedule holds, and of every Individual a repair pass or the fitness
\* evaluation after it returns, consists of exactly the entries of the master
\* menu (instanceId, session, slot, room); only the attendee lists differ.
C19_MenuFrozen ==
  \A ind \in Individuals \cup RepairOutputs \cup SearchOutputs :
    IsMenu(ind.instances, ctx.masterOptions)

\* the case of C19: an Individual that went through crossover, mutation,
\* presenter enforcement, repair and fitness evaluation, with attendees in
\* its lists, is returned
C19_ReturnedAfterSearch ==
  /\ pc = "done"
  /\ generation > 0
  /\ repairAttempts > 0
  /\ \E k \in DOMAIN population[1].instances : population[1].instances[k].attendees # <<>>

\* no object of made is an object of held
NothingShared(held, made) == \A h \in held, o \in made : o[1] # h[1]

\* the objects of held have their contents after the writes that left made
NothingWritten(held, made) == \A h \in held, o \in made : o[1] = h[1] => o[2] = h[2]

MaterializedIn(masterOptions, k, gene) ==
  /\ SameTriple(masterOptions[k], gene)
  /\ \A j \in 1..(k - 1) : ~SameTriple(masterOptions[j], gene)

\* the attendee lists are the genome materialized over the menu: an attendee
\* is listed in an instance, once, exactly when one of their genes is
\* materialized in it
Materializes(c, ind) ==
  \A k \in DOMAIN c.masterOptions :
    /\ \A i, j \in DOMAIN ind.instances[k].attendees :
         i # j => ind.instances[k].attendees[i] # ind.instances[k].attendees[j]
    /\ Attendees(ind.instances[k]) =
         {ind.genome[a].advId : a \in {b \in DOMAIN ind.genome :
            \E i \in DOMAIN ind.genome[b].genes :
               MaterializedIn(c.masterOptions, k, ind.genome[b].genes[i])}}

\* the child of p1 and p2 is as C21 says
CrossoverResult(c, p1, p2, child) ==
  /\ \A a \in DOMAIN c.advisors, t \in DOMAIN c.timeSlots :
       LET g1 == MapGet(GenesOf(p1, c.advisors[a].id), c.timeSlots[t].id)
           g2 == MapGet(GenesOf(p2, c.advisors[a].id), c.timeSlots[t].id)
           g == MapGet(GenesOf(child, c.advisors[a].id), c.timeSlots[t].id)
       IN  /\ g # NONE <=> (g1 # NONE \/ g2 # NONE)
           /\ (g1 # NONE /\ g2 # NONE) => g \in {g1, g2}
           /\ (g1 # NONE /\ g2 = NONE) => g = g1
           /\ (g1 = NONE /\ g2 # NONE) => g = g2
  /\ \A a \in DOMAIN child.genome : \A i \in DOMAIN child.genome[a].genes :
       /\ \E b \in DOMAIN c.advisors : c.advisors[b].id = child.genome[a].advId
       /\ \E t \in DOMAIN c.timeSlots : c.timeSlots[t].id = child.genome[a].genes[i].slotId
  /\ Materializes(c, child)

\* C21: for every attendee and slot the child of a crossover holds a gene
\* iff a parent holds one there; it is one of the parents' genes when both
\* do and the parent's gene when one does; and the child's attendee lists
\* are the materialization of the child's genome over the master menu.
C21_CrossoverResult ==
  (pc = "breed" /\ Len(newPop) < POPULATION_SIZE) =>
    \A p1, p2 \in selectParent(population) :
      \A heads \in SUBSET ContestedPairs(ctx, p1, p2) :
        CrossoverResult(ctx, p1, p2, crossoverIndividuals(ctx, p1, p2, heads))

\* the case of C21: the offspring loop is about to cross two parents that
\* differ in a gene, one of which holds a gene where the other holds none
C21_ParentsDiffer ==
  /\ pc = "breed"
  /\ Len(newPop) < POPULATION_SIZE
  /\ \E p1, p2 \in selectParent(population) :
       /\ ContestedPairs(ctx, p1, p2) # {}
       /\ \E a \in DOMAIN ctx.advisors, t \in DOMAIN ctx.timeSlots :
            /\ MapHas(GenesOf(p1, ctx.advisors[a].id), ctx.timeSlots[t].id)
            /\ ~MapHas(GenesOf(p2, ctx.advisors[a].id), ctx.timeSlots[t].id)

\* the (attendee, slot) pairs at which the two Individuals hold different
\* genes, or only one of them holds a gene
ChangedGenes(c, x, y) ==
  {p \in {c.advisors[a].id : a \in DOMAIN c.advisors}
         \X {c.timeSlots[t].id : t \in DOMAIN c.timeSlots} :
     MapGet(GenesOf(x, p[1]), p[2]) # MapGet(GenesOf(y, p[1]), p[2])}

\* the children on which the mutation of the next offspring may fire, with
\* the stats mutateIndividual computes first
MutationInputs ==
  IF pc = "breed" /\ Len(newPop) < POPULATION_SIZE
  THEN UNION {{calculateFitness(ctx, crossoverIndividuals(ctx, p1, p2, heads)) :
                 heads \in SUBSET ContestedPairs(ctx, p1, p2)} :
               p1 \in selectParent(population), p2 \in selectParent(population)}
  ELSE {}

\* C22: when mutation fires the mode is MANDATORY_FIX iff
\* mandatoryMetPercent < 100, else CAPACITY_FIX iff some instance exceeds its
\* capacity, else FILL_SLOT iff unfilledSlots > 0, and the swap of two
\* attendees' genes is made only when none of the three holds; in the three
\* fix modes the edit changes the gene of at most one attendee in at most
\* one slot.
C22_MutationMode ==
  \A x \in MutationInputs :
    LET mandatory == x.stats.mandatoryMetPercent < 100
        capacity == \E k \in DOMAIN x.instances :
                       Len(x.instances[k].attendees) > Cap(ctx, x.instances[k])
        unfilled == x.stats.unfilledSlots > 0
        mode == mutationChoice(ctx, x)
    IN  /\ mode = "MANDATORY_FIX" <=> mandatory
        /\ mode = "CAPACITY_FIX" <=> ~mandatory /\ capacity
        /\ mode = "FILL_SLOT" <=> ~mandatory /\ ~capacity /\ unfilled
        /\ mode = "RANDOM_SWAP" <=> ~mandatory /\ ~capacity /\ ~unfilled
        /\ \A y \in SwitchOutcomes(ctx, x) :
             (mandatory \/ capacity \/ unfilled)
               => Cardinality(ChangedGenes(ctx, x, y)) <= 1

\* the case of C22: the mutation of the next offspring fires in a fix mode
\* on one child, where it changes a gene, and swaps the genes of two
\* attendees on another
C22_FixAndSwap ==
  /\ \E x \in MutationInputs :
       /\ mutationChoice(ctx, x) = "FILL_SLOT"
       /\ \E y \in SwitchOutcomes(ctx, x) : Cardinality(ChangedGenes(ctx, x, y)) = 1
  /\ \E x \in MutationInputs :
       /\ mutationChoice(ctx, x) = "RANDOM_SWAP"
       /\ \E y \in SwitchOutcomes(ctx, x) : Cardinality(ChangedGenes(ctx, x, y)) = 2

\* the session slots in which the attendee holds a gene or has a presenter
\* obligation
FilledSlots(c, ind, advId) ==
  {t \in DOMAIN sessionSlotsOf(c) :
     \/ MapHas(GenesOf(ind, advId), sessionSlotsOf(c)[t])
     \/ HasPresenterConflict(c.presenterObligations, sessionSlotsOf(c)[t], advId)}

\* the sum over the attendees of max(0, S - n)
SlotGaps(c, ind) ==
  SumSeq([a \in DOMAIN c.advisors |->
            Max(0, Len(sessionSlotsOf(c))
                   - Cardinality(FilledSlots(c, ind, c.advisors[a].id)))])

\* C23: stats.unfilledSlots as calculateFitness computes it is the sum over
\* the attendees of max(0, S - n), S being the number of SESSION slots and n
\* the number of session slots in which the attendee holds a gene or has a
\* presenter obligation; so it is 0 iff every attendee has a gene or an
\* obligation in every session slot.
C23_UnfilledSlots ==
  \A ind \in Individuals :
    calculateFitness(ctx, ind).stats.unfilledSlots = SlotGaps(ctx, ind)

\* the attendees PHASE 4 evicted from instance k of ind, out being what it left
EvictedFrom(c, ind, out, k) ==
  IF Len(ind.instances[k].attendees) > Cap(c, ind.instances[k])
  THEN Attendees(ind.instances[k]) \ Attendees(out.instances[k])
  ELSE {}

\* the slot of instance k holds another instance
OtherInstanceInSlot(ind, k) ==
  \E x \in DOMAIN ind.instances \ {k} :
    ind.instances[x].slotId = ind.instances[k].slotId

\* C24: every attendee the rebalance phase evicts from an overfull instance
\* holds a gene in that instance's slot when the repair pass returns,
\* whenever the slot contains at least one other instance.
C24_EvictedReseated ==
  \A y \in Phase4Inputs :
    LET out == Phase4(ctx, y)
    IN  \/ out.hung
        \/ \A k \in DOMAIN y.instances :
             \A a \in EvictedFrom(ctx, y, out.ind, k) :
               OtherInstanceInSlot(y, k) =>
                 MapHas(GenesOf(out.ind, a), y.instances[k].slotId)

\* the instances PHASE 4 finds over capacity, in the order it takes them
OverfullInstances(c, ind) ==
  IndicesWhere(ind.instances, LAMBDA inst : Len(inst.attendees) > Cap(c, inst))

\* the attendees of instance k that present nothing in its slot
NonPresenters(c, ind, k) ==
  {a \in Attendees(ind.instances[k]) :
     ~HasPresenterConflict(c.presenterObligations, ind.instances[k].slotId, a)}

\* C25: the rebalance loop of an overfull instance evicts while the instance
\* exceeds its capacity and an attendee without a presenter obligation in the
\* slot remains: when the loop of the first overfull instance ends, the
\* instance is within capacity or holds presenters only.
C25_EvictsWhileNonPresenterRemains ==
  \A y \in Phase4Inputs :
    OverfullInstances(ctx, y) # <<>> =>
      LET k == OverfullInstances(ctx, y)[1]
          r == RebalanceLoop(ctx, [ind |-> y, hung |-> FALSE], k, {})
      IN  \/ r.hung
          \/ Len(r.ind.instances[k].attendees) <= Cap(ctx, r.ind.instances[k])
          \/ NonPresenters(ctx, r.ind, k) = {}

\* the Individual PHASE 1 leaves of x
AfterPhase1(c, x) ==
  Phase1(c, enforcePresenterObligations(x, c.presenterObligations, c.masterOptions))

\* the (attendee, session) pairs of ind whose session is MANDATORY or PLENARY
MandatoryAttendance(c, ind) ==
  {pr \in {<<c.advisors[a].id, MandatoryOrPlenary(c.sessions)[m].id>> :
             a \in DOMAIN c.advisors, m \in DOMAIN MandatoryOrPlenary(c.sessions)} :
     isAttendingSession(ind, pr[1], pr[2])}

\* C26: an attendee who holds a gene for a MANDATORY or PLENARY session when
\* PHASE 1 ends holds a gene for that session when the repair pass returns.
C26_MandatoryKeptByRebalance ==
  \A x \in RepairInputs :
    \/ refineScheduleWithBulldozer(ctx, x).hung
    \/ MandatoryAttendance(ctx, AfterPhase1(ctx, x))
         \subseteq MandatoryAttendance(ctx, refineScheduleWithBulldozer(ctx, x).ind)

\* the n-th (advisor, session) pair PHASE 1 visits
PairAdvisor(c, n) ==
  c.advisors[((n - 1) \div Len(MandatoryOrPlenary(c.sessions))) + 1]

PairSession(c, n) ==
  MandatoryOrPlenary(c.sessions)[((n - 1) % Len(MandatoryOrPlenary(c.sessions))) + 1]

Phase1Pairs(c) == 1..(Len(c.advisors) * Len(MandatoryOrPlenary(c.sessions)))

\* the Individual PHASE 1 holds once it has visited n pairs
\* PHASE 1 on its own.  population holds the one Individual under repair and
\* generation counts the (advisor, session) pairs visited; pc is "enforce"
\* before enforcePresenterObligations and "force" from then on.
\* as input 7 with a second mandatory session, 2, before session 1, which
\* has no speaker here: the menu is 1@2/haagse, 1@4/haagse, 2@2/witte,
\* 10@4/witte, so two mandatory sessions meet in slot 2 and advisor 1
\* presents the elective of slot 4
ForcingWorld ==
  [World7 EXCEPT !.sessions = <<[id |-> 2, speaker |-> <<>>, type |-> "MANDATORY",
                                 repeats |-> 1, constraints |-> NoConstraints],
                                [@[1] EXCEPT !.speaker = <<>>]>> \o Tail(@)]

ForcingWorlds == {World5, World7, World8, ForcingWorld}

\* the maps an attendee can hold over the menu: per session slot no gene or
\* the gene of one instance of the slot, in slot order
GeneMaps(c) ==
  LET slots == sessionSlotsOf(c)
      options(t) == {0} \cup {k \in DOMAIN c.masterOptions :
                                c.masterOptions[k].slotId = slots[t]}
      choices == {f \in [DOMAIN slots -> 0..Len(c.masterOptions)] :
                    \A t \in DOMAIN slots : f[t] \in options(t)}
      held(f) == SelectIdx([t \in DOMAIN slots |-> t],
                           {t \in DOMAIN slots : f[t] # 0}, 1)
  IN  {[i \in DOMAIN held(f) |-> GeneOf(c.masterOptions[f[held(f)[i]]])] : f \in choices}

Genomes(c) ==
  {[a \in DOMAIN c.advisors |-> [advId |-> c.advisors[a].id, genes |-> g[a]]] :
     g \in [DOMAIN c.advisors -> GeneMaps(c)]}

ForcingInit ==
  /\ ctx \in {MakeContext(w) : w \in ForcingWorlds}
  /\ population \in
       {<<[genome |-> genome, fitness |-> 0, stats |-> NoStats,
           instances |-> buildInstancesFromGenome(genome, ctx.masterOptions,
                                                  ctx.advisors)]>> :
          genome \in Genomes(ctx)}
  /\ newPop = <<>>
  /\ generation = 0
  /\ repairAttempts = 0
  /\ pc = "enforce"

\* enforcePresenterObligations(ind, presenterObligations, masterOptions)
EnforceObligations ==
  /\ pc = "enforce"
  /\ population' = <<enforcePresenterObligations(population[1],
                        ctx.presenterObligations, ctx.masterOptions)>>
  /\ pc' = "force"
  /\ UNCHANGED <<ctx, newPop, generation, repairAttempts>>

\* one turn of advisors.forEach(adv => mandatorySessions.forEach(ms => ...))
ForceNextPair ==
  /\ pc = "force"
  /\ generation + 1 \in Phase1Pairs(ctx)
  /\ population' = <<ForceMandatoryOne(ctx, population[1],
                        PairAdvisor(ctx, generation + 1),
                        PairSession(ctx, generation + 1))>>
  /\ generation' = generation + 1
  /\ UNCHANGED <<ctx, newPop, repairAttempts, pc>>

ForcingNext ==
  \/ EnforceObligations
  \/ ForceNextPair

ForcingSpec == ForcingInit /\ [][ForcingNext]_vars

InstancesOf(ind, sessionId) ==
  {k \in DOMAIN ind.instances : ind.instances[k].sessionId = sessionId}

\* what each of the three steps accepts of instance k for the attendee
FreeSeat(c, ind, advId, k) ==
  /\ ~MapHas(GenesOf(ind, advId), ind.instances[k].slotId)
  /\ HasSpace(c, ind.instances[k])

Replaceable(c, ind, advId, k) ==
  /\ ~HasPresenterConflict(c.presenterObligations, ind.instances[k].slotId, advId)
  /\ \/ ~MapHas(GenesOf(ind, advId), ind.instances[k].slotId)
     \/ SessionType(c, MapGet(GenesOf(ind, advId), ind.instances[k].slotId).sessionId)
          = "ELECTIVE"

LastResort(c, ind, advId, k) ==
  /\ ~HasPresenterConflict(c.presenterObligations, ind.instances[k].slotId, advId)
  /\ \/ ~MapHas(GenesOf(ind, advId), ind.instances[k].slotId)
     \/ SessionType(c, MapGet(GenesOf(ind, advId), ind.instances[k].slotId).sessionId)
          \notin {"MANDATORY", "PLENARY"}

SlotIds(c) == {c.timeSlots[i].id : i \in DOMAIN c.timeSlots}

\* after is before with the attendee's gene of the slot of instance k set to
\* that instance, and no other gene changed
PlacedAt(c, before, after, advId, k) ==
  /\ MapGet(GenesOf(after, advId), before.instances[k].slotId) = GeneOf(before.instances[k])
  /\ \A a \in DOMAIN c.advisors :
       \A t \in SlotIds(c) :
         (c.advisors[a].id # advId \/ t # before.instances[k].slotId) =>
           MapGet(GenesOf(after, c.advisors[a].id), t)
             = MapGet(GenesOf(before, c.advisors[a].id), t)

\* no gene of a MANDATORY or PLENARY session is deleted or overwritten
KeepsMandatoryGenes(c, before, after) ==
  \A a \in DOMAIN c.advisors :
    \A t \in SlotIds(c) :
      LET gene == MapGet(GenesOf(before, c.advisors[a].id), t)
      IN  (gene # NONE /\ SessionType(c, gene.sessionId) \in {"MANDATORY", "PLENARY"}) =>
            MapGet(GenesOf(after, c.advisors[a].id), t) = gene

\* no gene changes in a slot where its attendee has a presenter obligation
KeepsPresenterSlots(c, before, after) ==
  \A a \in DOMAIN c.advisors :
    \A t \in SlotIds(c) :
      HasPresenterConflict(c.presenterObligations, t, c.advisors[a].id) =>
        MapGet(GenesOf(after, c.advisors[a].id), t)
          = MapGet(GenesOf(before, c.advisors[a].id), t)

\* the three steps in order, a later one only when the earlier ones place
\* nothing
StepsInOrder(c, before, after, advId, sessionId) ==
  IF isAttendingSession(before, advId, sessionId) THEN after = before
  ELSE IF \E k \in InstancesOf(before, sessionId) : FreeSeat(c, before, advId, k)
  THEN \E k \in InstancesOf(before, sessionId) :
         FreeSeat(c, before, advId, k) /\ PlacedAt(c, before, after, advId, k)
  ELSE IF \E k \in InstancesOf(before, sessionId) : Replaceable(c, before, advId, k)
  THEN \E k \in InstancesOf(before, sessionId) :
         Replaceable(c, before, advId, k) /\ PlacedAt(c, before, after, advId, k)
  ELSE \/ after = before
       \/ \E k \in InstancesOf(before, sessionId) :
            LastResort(c, before, advId, k) /\ PlacedAt(c, before, after, advId, k)

\* C27: at every (advisor, session) pair PHASE 1 visits, it deletes or
\* overwrites no gene of a MANDATORY or PLENARY session, changes no gene in a
\* slot where the attendee has a presenter obligation, and places by the
\* first of its three steps that can place: free slot with a spare seat, then
\* a slot holding an elective or no gene, then the last-resort overwrite.
C27_MandatoryForcingFrame ==
  (pc = "force" /\ generation + 1 \in Phase1Pairs(ctx)) =>
    LET before == population[1]
        adv == PairAdvisor(ctx, generation + 1)
        ms == PairSession(ctx, generation + 1)
        after == ForceMandatoryOne(ctx, before, adv, ms)
    IN  /\ KeepsMandatoryGenes(ctx, before, after)
        /\ KeepsPresenterSlots(ctx, before, after)
        /\ StepsInOrder(ctx, before, after, adv.id, ms.id)

\* how PHASE 1 places the attendee of the next pair: 0 when the attendee has
\* the session or nothing is placed, else the number of the step that places
PlacingStep(c, ind, adv, ms) ==
  IF \/ isAttendingSession(ind, adv.id, ms.id)
     \/ ForceMandatoryOne(c, ind, adv, ms) = ind THEN 0
  ELSE IF \E k \in InstancesOf(ind, ms.id) : FreeSeat(c, ind, adv.id, k) THEN 1
  ELSE IF \E k \in InstancesOf(ind, ms.id) : Replaceable(c, ind, adv.id, k) THEN 2
  ELSE 3

\* PHASE 1 is about to put the attendee, who already holds a gene of another
\* MANDATORY or PLENARY session and presents in some slot, in the place of an
\* elective, no slot being free
C27_KicksOutElective ==
  /\ pc = "force"
  /\ generation + 1 \in Phase1Pairs(ctx)
  /\ PlacingStep(ctx, population[1], PairAdvisor(ctx, generation + 1),
                 PairSession(ctx, generation + 1)) = 2
  /\ \E t \in SlotIds(ctx) :
       HasPresenterConflict(ctx.presenterObligations, t,
                            PairAdvisor(ctx, generation + 1).id)
  /\ \E i \in DOMAIN GenesOf(population[1], PairAdvisor(ctx, generation + 1).id) :
       SessionType(ctx, GenesOf(population[1],
                                PairAdvisor(ctx, generation + 1).id)[i].sessionId)
         \in {"MANDATORY", "PLENARY"}

\* C28: when no placement is fixed, every MANDATORY session has an instance
\* of the menu in a slot other than the plenary slot, whenever a day-1 pair
\* outside that slot was eligible and unused when the session was placed.
C28_MandatoryOutsidePlenarySlot ==
  (pc # "menu" /\ ctx.fixedInstances = <<>>) =>
    LET m == MandatoryPass(ctx)
    IN  \A i \in DOMAIN MandatorySessions(ctx) :
          (\E pair \in FreePairsFor(ctx, m, i) : pair[1] # PLENARY_SLOT) =>
            \E k \in DOMAIN ctx.masterOptions :
              /\ ctx.masterOptions[k].sessionId = MandatorySessions(ctx)[i].id
              /\ ctx.masterOptions[k].slotId # PLENARY_SLOT

\* C29: every instance the mandatory or the elective pass of the generator
\* places has getStrictCapacity > 0 for its room, session and slot.
C29_PlacedInstancesUsable ==
  pc # "menu" =>
    \A k \in (MandatoryPass(ctx).before + 1)..Len(ctx.masterOptions) :
      Cap(ctx, ctx.masterOptions[k]) > 0

\* C30: the fitness of population[0] at the stagnation check never decreases
\* from one generation to the next: the breeding carries the best Individual
\* over as population[0], and after the local search and the sort of the next
\* generation population[0] has at least its fitness.
C30_BestFitnessMonotone ==
  [][/\ pc = "breed" => population'[1].fitness = population[1].fitness
     /\ (pc = "loop" /\ pc' = "breed" /\ generation >= 1) =>
          population'[1].fitness >= population[1].fitness]_vars

====
